---- MODULE Spec2Model ----
(***************************************************************************)
(* A model of the NCQA standards parser (workflows.py and mylib/*.py).    *)
(*                                                                         *)
(* A text is a sequence of symbols.  A symbol is one character (" ",      *)
(* "\n", ":", ".", "*", a digit, a letter) or one fixed word of the       *)
(* document grammar ("Element", "Scoring", "Factor", ...), which the      *)
(* patterns of the code only ever match as a whole.  The regular           *)
(* expressions of the code are written as trees and run by a backtracking *)
(* matcher with the priorities of Python's re module (leftmost match,     *)
(* greedy and lazy repetition, ordered alternatives, lookahead, groups).  *)
(***************************************************************************)
EXTENDS Integers, Sequences, FiniteSets, TLC

VARIABLES
    fn,         \* the function under way: "parse_pdfs_in_dir", or a pure function applied to a text
    arg,        \* its argument: the directory (file name -> pages), or the text
    res,        \* its outcome: [st |-> "pending" | "ok" | "raise", val |-> ...]
    pdf_files,  \* parse_pdfs_in_dir: the sorted list of PDF files
    pos,        \* parse_pdfs_in_dir: the position of pdf_path in pdf_files
    pc,         \* where the batch stands: "start", "loop", "standard", "element", "done"
    local,      \* the local variables of parse_pdf_incremental
    csv,        \* the output file: [exists, lines]
    calls,      \* history: the files parse_pdf_incremental was called on
    errors,     \* history: the errors caught by the batch, with where they were raised
    written     \* history: the standards appended to the output

hvars == <<fn, arg, res>>
wvars == <<pdf_files, pos, pc, local, csv, calls, errors, written>>
vars == <<fn, arg, res, pdf_files, pos, pc, local, csv, calls, errors, written>>

(***************************************************************************)
(* Symbols                                                                 *)
(***************************************************************************)
NL == "\n"
SP == " "
Digits == {"0", "1", "2", "3", "4", "5", "6", "7", "8", "9"}
Upper1 == {"A", "B", "C", "T"}                \* single upper-case letters
Lower1 == {"a", "b", "x", "y"}                \* single lower-case letters
\* words of the grammar that start with an upper-case letter
UpperWords == {"Element", "Scoring", "Factor", "Factors", "Critical", "CRITICAL",
               "Explanation", "Examples", "Exceptions", "Exception",
               "Related information", "Not Met", "Met", "Partially Met",
               "Not Applicable", "Data", "The organization",
               "No scoring", "FACTORS", "AAA", "BBB", "Foo", "Bar",
               "NCQA", "Effective for Surveys On or After", "Standards and Guidelines",
               "HP Standards", "July", "February", "MUST-PASS", "Scope of",
               "Documentation", "Look-back"}
\* words of the grammar that start with a lower-case letter
LowerWords == {"factor", "factors", "critical", "meets", "of", "and", "source", "scoring",
               "explanation", "examples", "data", "must-pass", "ncqa"}
Whitespace == {SP, NL}                        \* \s
WordSyms == Digits \cup Upper1 \cup Lower1 \cup UpperWords \cup LowerWords  \* \w
UpperStart == Upper1 \cup UpperWords          \* symbols whose first character is in [A-Z]

\* the number of characters of each word; every other symbol is one character
WordWidths ==
    { <<"Element", 7>>, <<"Scoring", 7>>, <<"Factor", 6>>, <<"Factors", 7>>,
      <<"Critical", 8>>, <<"CRITICAL", 8>>, <<"Explanation", 11>>, <<"Examples", 8>>,
      <<"Exceptions", 10>>, <<"Exception", 9>>, <<"Related information", 19>>,
      <<"Not Met", 7>>, <<"Met", 3>>, <<"Partially Met", 13>>, <<"Not Applicable", 14>>,
      <<"Data", 4>>, <<"The organization", 16>>, <<"No scoring", 10>>, <<"FACTORS", 7>>,
      <<"AAA", 3>>, <<"BBB", 3>>, <<"Foo", 3>>, <<"Bar", 3>>, <<"NCQA", 4>>,
      <<"Effective for Surveys On or After", 33>>, <<"Standards and Guidelines", 24>>,
      <<"HP Standards", 12>>, <<"July", 4>>, <<"February", 8>>, <<"MUST-PASS", 9>>,
      <<"Scope of", 8>>, <<"Documentation", 13>>, <<"Look-back", 9>>, <<"factor", 6>>,
      <<"factors", 7>>, <<"critical", 8>>, <<"meets", 5>>, <<"of", 2>>, <<"and", 3>>,
      <<"source", 6>>, <<"scoring", 7>>, <<"explanation", 11>>, <<"examples", 8>>,
      <<"data", 4>>, <<"must-pass", 9>>, <<"ncqa", 4>>,
      <<"No factor explanation provided.", 31>> }
Width(x) == IF \E w \in WordWidths : w[1] = x
            THEN (CHOOSE w \in WordWidths : w[1] = x)[2] ELSE 1

\* words spelled in upper-case letters only, by their number of letters
Caps3 == {"AAA", "BBB"}
Caps4 == {"NCQA"}
AllCaps == Caps3 \cup Caps4 \cup {"CRITICAL", "FACTORS"}
\* words made of letters only: each is a run of [A-Za-z]
Alphabetic ==
    Upper1 \cup Lower1 \cup {"Element", "Scoring", "Factor", "Factors", "Critical", "CRITICAL",
        "Explanation", "Examples", "Exceptions", "Exception", "Met", "Data", "FACTORS", "AAA",
        "BBB", "Foo", "Bar", "NCQA", "July", "February", "Documentation", "factor", "factors",
        "critical", "meets", "of", "and", "source", "scoring", "explanation", "examples",
        "data", "ncqa"}

\* str.lower() and str.upper() on the words that have both spellings here
CasePairs == { <<"data", "Data">>, <<"factor", "Factor">>, <<"factors", "Factors">>,
               <<"critical", "Critical">>, <<"scoring", "Scoring">>,
               <<"explanation", "Explanation">>, <<"examples", "Examples">>,
               <<"must-pass", "MUST-PASS">>, <<"ncqa", "NCQA">>, <<"critical", "CRITICAL">>,
               <<"factors", "FACTORS">>, <<"a", "A">>, <<"b", "B">> }
lower_sym(x) == IF \E c \in CasePairs : c[2] = x THEN (CHOOSE c \in CasePairs : c[2] = x)[1] ELSE x
lower(s) == [i \in 1..Len(s) |-> lower_sym(s[i])]

(***************************************************************************)
(* Python's str and list helpers                                           *)
(***************************************************************************)
Raise == [st |-> "raise", val |-> <<>>]
Ok(v) == [st |-> "ok", val |-> v]
Pending == [st |-> "pending", val |-> <<>>]

\* min(S)
Min(S) == CHOOSE x \in S : \A y \in S : x <= y

\* s[a:b] with 1-based a and exclusive b
Slice(s, a, b) == IF b <= a THEN <<>> ELSE SubSeq(s, a, b - 1)

\* max(S)
Max(S) == CHOOSE x \in S : \A y \in S : x >= y

lstrip(s) == Slice(s, Min({i \in 1..Len(s) : s[i] \notin Whitespace} \cup {Len(s) + 1}), Len(s) + 1)

rstrip(s) == Slice(s, 1, Max({i \in 1..Len(s) : s[i] \notin Whitespace} \cup {0}) + 1)

\* str.strip()
strip(s) == lstrip(rstrip(s))

\* sep.join(parts)
RECURSIVE join(_, _)
join(sep, parts) ==
    IF parts = <<>> THEN <<>>
    ELSE IF Len(parts) = 1 THEN parts[1]
    ELSE parts[1] \o sep \o join(sep, Tail(parts))

\* s.split(c): the pieces between the occurrences of symbol c
split_on(s, c) ==
    LET at == {i \in 1..Len(s) : s[i] = c}
        nth(k) == IF k = 0 THEN 0
                  ELSE IF k > Cardinality(at) THEN Len(s) + 1
                  ELSE CHOOSE i \in at : Cardinality({j \in at : j < i}) = k - 1
    IN [k \in 1..(Cardinality(at) + 1) |-> Slice(s, nth(k - 1) + 1, nth(k))]

\* s.splitlines(): like split on "\n", but a trailing line break adds no empty line
splitlines(s) ==
    IF s = <<>> THEN <<>>
    ELSE IF s[Len(s)] = NL THEN split_on(Slice(s, 1, Len(s)), NL)
    ELSE split_on(s, NL)

\* s.split(): the maximal runs of non-whitespace symbols
RECURSIVE split_ws(_)
split_ws(s) ==
    LET words(t) ==
          IF t = <<>> THEN <<>>
          ELSE IF \A i \in 1..Len(t) : t[i] \notin Whitespace THEN <<t>>
          ELSE LET cut(i) == <<Slice(t, 1, i)>> \o split_ws(Slice(t, i, Len(t) + 1))
               IN cut(Min({i \in 1..Len(t) : t[i] \in Whitespace}))
    IN words(lstrip(s))

\* [line.strip() for line in text.splitlines() if line.strip()]
RECURSIVE nonblank_stripped(_)
nonblank_stripped(ls) ==
    IF ls = <<>> THEN <<>>
    ELSE IF strip(Head(ls)) = <<>> THEN nonblank_stripped(Tail(ls))
    ELSE <<strip(Head(ls))>> \o nonblank_stripped(Tail(ls))

stripped_lines(text) == nonblank_stripped(splitlines(text))

\* s.replace(c, d) for a single symbol c and a text d
replace(s, c, d) == join(d, split_on(s, c))

(***************************************************************************)
(* The matcher.  A pattern is a tree:                                      *)
(*   <<"set", S>>  one symbol of S        <<"nset", S>>  one symbol not in S*)
(*   <<"any">>     any symbol (. under DOTALL)                             *)
(*   <<"bol">> ^ under MULTILINE    <<"bos">> ^ otherwise                  *)
(*   <<"eol">> $ under MULTILINE    <<"end">> $ otherwise    <<"eos">> \Z  *)
(*   <<"wb">>  \b                                                          *)
(*   <<"seq", <<p1, ..., pn>>>>     <<"alt", <<p1, ..., pn>>>>             *)
(*   <<"rep", p, min, max, greedy>> (max = -1: unbounded)                  *)
(*   <<"grp", k, p>> capture group k      <<"la", p>> lookahead (?=p)      *)
(* Run(k, s, i, c) matches the patterns of the stack k one after the other *)
(* from position i of s with the captures c, trying the choices in         *)
(* Python's order, and returns the first way that succeeds.                *)
(***************************************************************************)
NoMatch == [ok |-> FALSE, start |-> 0, end |-> 0, caps |-> <<>>]
Unset == <<0, 0>>

Dot == <<"nset", {NL}>>
Star(p) == <<"rep", p, 0, -1, TRUE>>
Plus(p) == <<"rep", p, 1, -1, TRUE>>
Opt(p) == <<"rep", p, 0, 1, TRUE>>
LazyStar(p) == <<"rep", p, 0, -1, FALSE>>
Lit(c) == <<"set", {c}>>
WS == <<"set", Whitespace>>
Digit == <<"set", Digits>>

IsWord(s, i) == i >= 1 /\ i <= Len(s) /\ s[i] \in WordSyms

\* a pattern that takes exactly one symbol
OneSymbol(p) == p[1] \in {"set", "nset", "any"}
Takes(p, x) == CASE p[1] = "set" -> x \in p[2]
                 [] p[1] = "nset" -> x \notin p[2]
                 [] p[1] = "any" -> TRUE

\* how many symbols from position i on a one-symbol pattern takes in a row, at most max
RunLength(p, s, i, max) ==
    Min({k - i : k \in {k \in i..Len(s) : ~Takes(p, s[k])}}
        \cup {Len(s) + 1 - i} \cup {n \in {max} : n >= 0})

\* of two ways to go on, the first if it succeeds
OrElse(first, second) == IF first.ok THEN first ELSE second

RECURSIVE Run(_, _, _, _)
\* of the ways <<count, outcome>> to go on after a run of single symbols, the
\* preferred one of those that succeed: the largest count (greedy) or the least (lazy)
Preferred(ways, greedy) ==
    IF \A w \in ways : ~w[2].ok THEN NoMatch
    ELSE (CHOOSE w \in ways :
             /\ w[2].ok
             /\ \A v \in ways : v[2].ok => IF greedy THEN v[1] <= w[1] ELSE w[1] <= v[1])[2]

\* the repetition p = <<"rep", q, min, max, greedy>> at position i, then the stack rest
Repeat(p, rest, s, i, c) ==
    IF OneSymbol(p[2])
    THEN Preferred({<<j, Run(rest, s, i + j, c)>> : j \in p[3]..RunLength(p[2], s, i, p[4])},
                   p[5])
    ELSE IF p[3] > 0
    THEN Run(<<p[2], <<"progress", i>>, <<"rep", p[2], p[3] - 1,
                                           IF p[4] > 0 THEN p[4] - 1 ELSE p[4], p[5]>>>> \o rest,
             s, i, c)
    ELSE IF p[4] = 0 THEN Run(rest, s, i, c)
    ELSE IF p[5]
    THEN OrElse(Run(<<<<"rep", p[2], 1, p[4], p[5]>>>> \o rest, s, i, c), Run(rest, s, i, c))
    ELSE OrElse(Run(rest, s, i, c), Run(<<<<"rep", p[2], 1, p[4], p[5]>>>> \o rest, s, i, c))

\* the pattern p at position i, then the stack rest
Step(p, rest, s, i, c) ==
    CASE p[1] = "set" -> IF i <= Len(s) /\ s[i] \in p[2] THEN Run(rest, s, i + 1, c) ELSE NoMatch
      [] p[1] = "nset" -> IF i <= Len(s) /\ s[i] \notin p[2] THEN Run(rest, s, i + 1, c) ELSE NoMatch
      [] p[1] = "any" -> IF i <= Len(s) THEN Run(rest, s, i + 1, c) ELSE NoMatch
      [] p[1] = "bol" -> IF i = 1 \/ s[i - 1] = NL THEN Run(rest, s, i, c) ELSE NoMatch
      [] p[1] = "bos" -> IF i = 1 THEN Run(rest, s, i, c) ELSE NoMatch
      [] p[1] = "eol" -> IF i = Len(s) + 1 \/ s[i] = NL THEN Run(rest, s, i, c) ELSE NoMatch
      [] p[1] = "end" -> IF i = Len(s) + 1 \/ (i = Len(s) /\ s[i] = NL)
                         THEN Run(rest, s, i, c) ELSE NoMatch
      [] p[1] = "eos" -> IF i = Len(s) + 1 THEN Run(rest, s, i, c) ELSE NoMatch
      [] p[1] = "wb" -> IF IsWord(s, i - 1) # IsWord(s, i) THEN Run(rest, s, i, c) ELSE NoMatch
      [] p[1] = "seq" -> Run(p[2] \o rest, s, i, c)
      [] p[1] = "alt" ->
            IF p[2] = <<>> THEN NoMatch
            ELSE OrElse(Run(<<Head(p[2])>> \o rest, s, i, c),
                        Run(<<<<"alt", Tail(p[2])>>>> \o rest, s, i, c))
      [] p[1] = "rep" -> Repeat(p, rest, s, i, c)
      \* an iteration of a repetition that consumed nothing is not repeated
      [] p[1] = "progress" -> IF i > p[2] THEN Run(rest, s, i, c) ELSE NoMatch
      [] p[1] = "grp" -> Run(<<<<"open", p[2]>>, p[3], <<"close", p[2]>>>> \o rest, s, i, c)
      [] p[1] = "open" -> Run(rest, s, i, [c EXCEPT ![p[2]] = <<i, 0>>])
      [] p[1] = "close" -> Run(rest, s, i, [c EXCEPT ![p[2]] = <<c[p[2]][1], i>>])
      [] p[1] = "la" -> IF Run(<<p[2]>>, s, i, c).ok THEN Run(rest, s, i, c) ELSE NoMatch

Run(k, s, i, c) ==
    IF k = <<>> THEN [ok |-> TRUE, start |-> 0, end |-> i, caps |-> c]
    ELSE Step(Head(k), Tail(k), s, i, c)

NoCaps(n) == [g \in 1..n |-> Unset]

\* pattern.match(s) at position i: [ok, start, end, caps]
MatchAt(p, n, s, i) ==
    IF i > Len(s) + 1 THEN NoMatch
    ELSE [Run(<<p>>, s, i, NoCaps(n)) EXCEPT !.start = i]

\* the leftmost of the matches of a set, if there is one
Leftmost(ms) ==
    IF \A m \in ms : ~m.ok THEN NoMatch
    ELSE CHOOSE m \in ms : m.ok /\ \A h \in ms : h.ok => m.start <= h.start

\* pattern.search(s) from position i on: the leftmost match
SearchFrom(p, n, s, i) == Leftmost({MatchAt(p, n, s, j) : j \in i..(Len(s) + 1)})

Search(p, n, s) == SearchFrom(p, n, s, 1)

\* list(pattern.finditer(s)): the successive non-overlapping matches, m being the next
\* one and ms the matches of the pattern at every position of the text
RECURSIVE FindNext(_, _)
FindNext(ms, m) ==
    IF ~m.ok THEN <<>>
    ELSE <<m>> \o FindNext(ms, Leftmost({h \in ms : h.start >= (IF m.end > m.start
                                                                 THEN m.end ELSE m.end + 1)}))

FindIter(p, n, s) ==
    LET from(ms) == FindNext(ms, Leftmost(ms))
    IN from({MatchAt(p, n, s, j) : j \in 1..(Len(s) + 1)})

\* match.group(g): the text of group g ("" when the group took no part)
Group(s, m, g) == IF m.caps[g][2] = 0 THEN <<>> ELSE Slice(s, m.caps[g][1], m.caps[g][2])
HasGroup(m, g) == m.caps[g][2] # 0
\* match.group(0)
Group0(s, m) == Slice(s, m.start, m.end)

\* re.sub(p, d, s) from position i on, m being the next match of p (none is empty)
RECURSIVE SubNext(_, _, _, _, _)
SubNext(p, d, s, i, m) ==
    IF ~m.ok \/ m.end = m.start THEN Slice(s, i, Len(s) + 1)
    ELSE Slice(s, i, m.start) \o d \o SubNext(p, d, s, m.end, SearchFrom(p, 0, s, m.end))

\* re.sub(p, d, s): every match of p replaced by the text d
Sub(p, d, s) == SubNext(p, d, s, 1, SearchFrom(p, 0, s, 1))

(***************************************************************************)
(* Dictionaries keep insertion order: a sequence of <<key, value>> pairs. *)
(* d[k] = v replaces the value of a key already present, in its place.    *)
(***************************************************************************)
HasKey(d, k) == \E i \in 1..Len(d) : d[i][1] = k

\* d[k] and list(d.keys())
DictGet(d, k) == d[CHOOSE i \in 1..Len(d) : d[i][1] = k][2]
DictKeys(d) == [i \in 1..Len(d) |-> d[i][1]]

DictSet(d, k, v) ==
    IF HasKey(d, k)
    THEN [i \in 1..Len(d) |-> IF d[i][1] = k THEN <<k, v>> ELSE d[i]]
    ELSE Append(d, <<k, v>>)

(***************************************************************************)
(* mylib/standard.py: standard_to_elements                                 *)
(***************************************************************************)
\* (?m)^Element\s+[A-Z]{1,2}:\s+.*
element_pattern ==
    <<"seq", << <<"bol">>, Lit("Element"), Plus(WS), <<"rep", <<"set", Upper1>>, 1, 2, TRUE>>,
                Lit(":"), Plus(WS), Star(Dot) >> >>

\* the title under which match m of the body is stored
element_title(standard_body, m) ==
    LET shortened(title, words) ==
          IF Len(words[2]) > 2
          THEN <<"Element", SP>> \o Tail(words[2]) \o <<SP>>
               \o join(<<SP>>, SubSeq(words, 3, Len(words)))
          ELSE title
        of(title) == shortened(title, split_ws(title))
    IN of(strip(Group0(standard_body, m)))

\* the loop of standard_to_elements over matches[i..], filling elements
RECURSIVE elements_loop(_, _, _, _)
elements_loop(standard_body, matches, i, elements) ==
    IF i > Len(matches) THEN elements
    ELSE LET store(start, end, title) ==
               elements_loop(standard_body, matches, i + 1,
                   DictSet(elements, title, strip(Slice(standard_body, start + Len(title), end))))
         IN store(matches[i].start,
                  IF i + 1 <= Len(matches) THEN matches[i + 1].start ELSE Len(standard_body) + 1,
                  element_title(standard_body, matches[i]))

\* standard_to_elements returning an empty mapping where the code raises
standard_to_elements_returning_empty(standard_body) ==
    Ok(elements_loop(standard_body, FindIter(element_pattern, 0, standard_body), 1, <<>>))

standard_to_elements(standard_body) ==
    LET elements_of(matches) ==
          IF matches = <<>> THEN Raise
          ELSE Ok(elements_loop(standard_body, matches, 1, <<>>))
    IN elements_of(FindIter(element_pattern, 0, standard_body))

(***************************************************************************)
(* Numbers in texts                                                        *)
(***************************************************************************)
DigitSeq == <<"0", "1", "2", "3", "4", "5", "6", "7", "8", "9">>
DigitVal(c) == (CHOOSE k \in 1..Len(DigitSeq) : DigitSeq[k] = c) - 1

\* str(n) for n >= 0
RECURSIVE str_int(_)
str_int(n) == IF n < Len(DigitSeq) THEN <<DigitSeq[n + 1]>>
              ELSE str_int(n \div Len(DigitSeq)) \o <<DigitSeq[(n % Len(DigitSeq)) + 1]>>

\* int(s) for a non-empty text of digits
RECURSIVE int_str(_)
int_str(s) == IF Len(s) = 1 THEN DigitVal(s[1])
              ELSE int_str(SubSeq(s, 1, Len(s) - 1)) * Len(DigitSeq) + DigitVal(s[Len(s)])

\* s.isdigit()
isdigit(s) == s # <<>> /\ \A i \in 1..Len(s) : s[i] \in Digits

\* the pattern that matches the text s literally
RECURSIVE lits(_)
lits(s) == IF s = <<>> THEN <<>> ELSE <<Lit(Head(s))>> \o lits(Tail(s))
Literal(s) == <<"seq", lits(s)>>

\* re.sub(r"\s+", " ", s)
collapse_ws(s) == Sub(Plus(WS), <<SP>>, s)

(***************************************************************************)
(* mylib/factor.py                                                         *)
(***************************************************************************)
\* (?m)^\s*\d+\.\s+
numbered_line_pattern == <<"seq", << <<"bol">>, Star(WS), Plus(Digit), Lit("."), Plus(WS) >> >>

get_num_factors(factors_text) == Len(FindIter(numbered_line_pattern, 0, factors_text))

factor_get_index_from_zero(factors_text, index) == <<"Factor", SP>> \o str_int(index - 1)

\* f"Factor {str(index)}"
factor_get_index(factors_text, index) == <<"Factor", SP>> \o str_int(index)

\* (?m)^Factor\s+{index}:\s*(.*)
title_from_explanation_pattern(index) ==
    <<"seq", << <<"bol">>, Lit("Factor"), Plus(WS), Literal(str_int(index)), Lit(":"),
                Star(WS), <<"grp", 1, Star(Dot)>> >> >>

\* the title, or <<>> for None (an empty title is returned as None)
get_title_from_explanation(element_explanation, index) ==
    LET title_of(match) ==
          IF ~match.ok THEN <<>> ELSE strip(Group(element_explanation, match, 1))
    IN title_of(Search(title_from_explanation_pattern(index), 1, element_explanation))

\* (?m)^\s*{index}\.\s*(.+)
title_from_factors_pattern(index) ==
    <<"seq", << <<"bol">>, Star(WS), Literal(str_int(index)), Lit("."), Star(WS),
                <<"grp", 1, Plus(Dot)>> >> >>

get_title_from_factors_text(factors_text, index) ==
    LET without_period(title) ==
          IF title # <<>> /\ title[Len(title)] = "."
          THEN strip(SubSeq(title, 1, Len(title) - 1))
          ELSE title
        title_of(match) ==
          IF ~match.ok THEN <<>> ELSE without_period(strip(Group(factors_text, match, 1)))
    IN title_of(Search(title_from_factors_pattern(index), 1, factors_text))

factor_get_title(element_explanation, factors_text, index) ==
    LET first_of(t1, t2) ==
          IF t1 # <<>> THEN Ok(t1)
          ELSE IF t2 # <<>> THEN Ok(t2)
          ELSE Raise
    IN first_of(get_title_from_explanation(element_explanation, index),
                get_title_from_factors_text(factors_text, index))

\* (?s)^(.*?)^\s*1\.   with re.MULTILINE
intro_pattern ==
    <<"seq", << <<"bol">>, <<"grp", 1, LazyStar(<<"any">>)>>, <<"bol">>, Star(WS),
                Lit("1"), Lit(".") >> >>

\* [:\s]+$
trailing_colons_pattern == <<"seq", << Plus(<<"set", Whitespace \cup {":"}>>), <<"end">> >> >>

\* (?ms)^\s*{index}\.\s*(.*?)(?=^\s*\d+\.\s|\Z)
description_pattern(index) ==
    <<"seq", << <<"bol">>, Star(WS), Literal(str_int(index)), Lit("."), Star(WS),
                <<"grp", 1, LazyStar(<<"any">>)>>,
                <<"la", <<"alt", << <<"seq", << <<"bol">>, Star(WS), Plus(Digit), Lit("."), WS >> >>,
                                    <<"eos">> >> >> >> >> >>

\* s.rstrip(chars)
RECURSIVE rstrip_chars(_, _)
rstrip_chars(s, chars) ==
    IF s # <<>> /\ s[Len(s)] \in chars THEN rstrip_chars(SubSeq(s, 1, Len(s) - 1), chars) ELSE s

get_description(factors_text, index) ==
    LET intro_of(intro_match) ==
          IF intro_match.ok
          THEN strip(Sub(trailing_colons_pattern, <<>>, Group(factors_text, intro_match, 1)))
          ELSE <<>>
        combined(intro, factor_desc) ==
          IF factor_desc = <<>> THEN Raise
          ELSE IF intro # <<>>
               THEN Ok(strip(rstrip_chars(intro, {":", "."}) \o <<SP>> \o factor_desc))
               ELSE Ok(factor_desc)
        described(match) ==
          IF ~match.ok THEN Raise
          ELSE combined(intro_of(Search(intro_pattern, 1, factors_text)),
                        strip(collapse_ws(Group(factors_text, match, 1))))
    IN described(Search(description_pattern(index), 1, factors_text))

\* the words a pattern under re.IGNORECASE matches for Factor, Factors, Critical
FactorWord == {"Factor", "factor"}
FactorsWord == {"Factors", "factors", "FACTORS"}
CriticalWord == {"Critical", "critical", "CRITICAL"}
\* "-", and the en dash and the em dash, written "ndash" and "mdash"
Dashes == {"-", "ndash", "mdash"}

\* (?ms)^Factors?\s+([\d,\-<ndash><mdash>\s]+)(?::[^\n]*)?\n(.*?)
\*      (?=^Factors?\s+\d|^Exceptions?|^Related information|\Z)   with re.IGNORECASE
explanation_block_pattern ==
    <<"seq", << <<"bol">>, <<"set", FactorWord \cup FactorsWord>>, Plus(WS),
                <<"grp", 1, Plus(<<"set", Digits \cup {","} \cup Dashes \cup Whitespace>>)>>,
                Opt(<<"seq", << Lit(":"), Star(Dot) >> >>),
                Lit(NL),
                <<"grp", 2, LazyStar(<<"any">>)>>,
                <<"la", <<"alt", <<
                    <<"seq", << <<"bol">>, <<"set", FactorWord \cup FactorsWord>>, Plus(WS), Digit >> >>,
                    <<"seq", << <<"bol">>, <<"set", {"Exception", "Exceptions"}>> >> >>,
                    <<"seq", << <<"bol">>, Lit("Related information") >> >>,
                    <<"eos">> >> >> >> >> >>

\* factor_spec.replace(" ", "").replace(<ndash>, "-").replace(<mdash>, "-")
normal_spec(factor_spec) ==
    replace(replace(replace(factor_spec, SP, <<>>), "ndash", <<"-">>), "mdash", <<"-">>)

\* the loop over factor_spec.split(","): [ok |-> FALSE] when the unpacking of
\* part.split("-") raises, else the set of factor numbers
RECURSIVE spec_factors(_)
spec_factors(parts) ==
    IF parts = <<>> THEN [ok |-> TRUE, set |-> {}]
    ELSE LET with(part, pieces, others) ==
               IF \E i \in 1..Len(part) : part[i] = "-"
               THEN IF Len(pieces) # 2 THEN [ok |-> FALSE, set |-> {}]
                    ELSE IF ~others.ok THEN others
                    ELSE IF isdigit(pieces[1]) /\ isdigit(pieces[2])
                         THEN [ok |-> TRUE,
                               set |-> (int_str(pieces[1])..int_str(pieces[2])) \cup others.set]
                         ELSE others
               ELSE IF ~others.ok THEN others
               ELSE IF isdigit(part) THEN [ok |-> TRUE, set |-> {int_str(part)} \cup others.set]
               ELSE others
         IN with(Head(parts), split_on(Head(parts), "-"), spec_factors(Tail(parts)))

\* the loop of get_explanation over matches[k..]: [ok, list] with the cleaned
\* contents of the blocks that apply to index; ok = FALSE when a spec raises
RECURSIVE explanations_loop(_, _, _, _)
explanations_loop(text, matches, k, index) ==
    IF k > Len(matches) THEN [ok |-> TRUE, list |-> <<>>]
    ELSE LET with(factors, content, later) ==
               IF ~factors.ok THEN [ok |-> FALSE, list |-> <<>>]
               ELSE IF ~later.ok THEN later
               ELSE IF index \in factors.set
                    THEN [ok |-> TRUE, list |-> <<collapse_ws(strip(content))>> \o later.list]
                    ELSE later
         IN with(spec_factors(split_on(normal_spec(Group(text, matches[k], 1)), ",")),
                 Group(text, matches[k], 2),
                 explanations_loop(text, matches, k + 1, index))

no_explanation_text == <<"No factor explanation provided.">>

\* get_explanation raising when no block exists (line 182, commented out in the code)
get_explanation_raising_on_absence(element_explanation, index) ==
    LET joined(matches, explanations) ==
          IF matches = <<>> THEN Raise
          ELSE IF ~explanations.ok THEN Raise
          ELSE IF explanations.list = <<>> THEN Raise
          ELSE Ok(strip(join(<<SP>>, explanations.list)))
        blocks(text, matches) == joined(matches, explanations_loop(text, matches, 1, index))
        of(text) == blocks(text, FindIter(explanation_block_pattern, 2, text))
    IN of(strip(element_explanation))

factor_get_explanation(element_explanation, index) ==
    LET joined(matches, explanations) ==
          IF matches = <<>> THEN Ok(no_explanation_text)
          ELSE IF ~explanations.ok THEN Raise
          ELSE IF explanations.list = <<>> THEN Raise
          ELSE Ok(strip(join(<<SP>>, explanations.list)))
        blocks(text, matches) == joined(matches, explanations_loop(text, matches, 1, index))
        of(text) == blocks(text, FindIter(explanation_block_pattern, 2, text))
    IN of(strip(element_explanation))

\* (?ms)^\s*{index}\.\s*(.*?)(?=^\s*\d+\.\s|\*Critical|\Z)
critical_block_pattern(index) ==
    <<"seq", << <<"bol">>, Star(WS), Literal(str_int(index)), Lit("."), Star(WS),
                <<"grp", 1, LazyStar(<<"any">>)>>,
                <<"la", <<"alt", << <<"seq", << <<"bol">>, Star(WS), Plus(Digit), Lit("."), WS >> >>,
                                    <<"seq", << Lit("*"), Lit("Critical") >> >>,
                                    <<"eos">> >> >> >> >> >>

\* (?mi)^\*Critical factors\b
footnote_pattern ==
    <<"seq", << <<"bol">>, Lit("*"), <<"set", CriticalWord>>, Lit(SP), <<"set", FactorsWord>>,
                <<"wb">> >> >>

\* check_critical without the footnote test: a block ending in "*" is enough
check_critical_without_footnote(factors_text, index) ==
    LET starred(factor_block) == factor_block # <<>> /\ factor_block[Len(factor_block)] = "*"
        of(m) == m.ok /\ starred(rstrip(Group(factors_text, m, 1)))
    IN of(Search(critical_block_pattern(index), 1, factors_text))

check_critical(factors_text, index) ==
    LET starred(factor_block) == factor_block # <<>> /\ factor_block[Len(factor_block)] = "*"
        both(has_star, footnote_present) ==
          IF ~has_star THEN FALSE ELSE has_star /\ footnote_present
        of(m) ==
          IF ~m.ok THEN FALSE
          ELSE both(starred(rstrip(Group(factors_text, m, 1))),
                    Search(footnote_pattern, 0, factors_text).ok)
    IN of(Search(critical_block_pattern(index), 1, factors_text))

(***************************************************************************)
(* mylib/element.py: format_scoring                                        *)
(***************************************************************************)
categories == <<"Met", "Partially Met", "Not Met">>

\* cat.lower().replace(" ", "_")
label(cat) == CASE cat = "Met" -> "met"
                [] cat = "Partially Met" -> "partially_met"
                [] cat = "Not Met" -> "not_met"

\* (?m)^([A-Z].*)
description_start_pattern == <<"seq", << <<"bol">>, <<"set", UpperStart>>, Star(Dot) >> >>

\* (\d+)(?:-(\d+))?\s*factors?   with re.IGNORECASE
factor_pattern ==
    <<"seq", << <<"grp", 1, Plus(Digit)>>,
                Opt(<<"seq", << Lit("-"), <<"grp", 2, Plus(Digit)>> >> >>),
                Star(WS), <<"set", FactorWord \cup FactorsWord>> >> >>

\* lines.index(x): 0 when x is no element of lines
index_of(lines, x) ==
    IF \E i \in 1..Len(lines) : lines[i] = x
    THEN CHOOSE i \in 1..Len(lines) : lines[i] = x /\ \A j \in 1..(i - 1) : lines[j] # x
    ELSE 0

\* the description blocks between the matches
scoring_descriptions(desc_block, matches) ==
    [i \in 1..Len(matches) |->
        strip(Slice(desc_block, matches[i].start,
                    IF i + 1 <= Len(matches) THEN matches[i + 1].start ELSE Len(desc_block) + 1))]

\* scoring_entry taking the maximum from the first number also for a range
scoring_entry_ignoring_range(desc) ==
    LET entry(match, description) ==
          IF match.ok
          THEN << description,
                  <<"min_num_factors", int_str(Group(desc, match, 1))>>,
                  <<"max_num_factors", int_str(Group(desc, match, 1))>> >>
          ELSE << description >>
    IN entry(Search(factor_pattern, 2, desc),
             <<"description", strip(replace(desc, NL, <<SP>>))>>)

\* the entry of one category: a dictionary with "description" and, when the
\* description holds a factor count, "min_num_factors" and "max_num_factors"
scoring_entry(desc) ==
    LET entry(match, description) ==
          IF match.ok
          THEN << description,
                  <<"min_num_factors", int_str(Group(desc, match, 1))>>,
                  <<"max_num_factors", IF HasGroup(match, 2) THEN int_str(Group(desc, match, 2))
                                       ELSE int_str(Group(desc, match, 1))>> >>
          ELSE << description >>
    IN entry(Search(factor_pattern, 2, desc),
             <<"description", strip(replace(desc, NL, <<SP>>))>>)

\* zip(categories, descriptions)
zip_len(a, b) == IF Len(a) <= Len(b) THEN Len(a) ELSE Len(b)

\* format_scoring raising only for fewer than 3 descriptions, as its docstring says
format_scoring_accepting_more(scoring_text) ==
    LET rule(matches, descriptions) ==
          IF Len(matches) < Len(categories) THEN Raise
          ELSE Ok([i \in 1..zip_len(categories, descriptions) |->
                      <<label(categories[i]), scoring_entry(descriptions[i])>>])
        split(desc_block, matches) == rule(matches, scoring_descriptions(desc_block, matches))
        blocks(desc_block) ==
          IF desc_block = <<>> THEN Raise
          ELSE split(desc_block, FindIter(description_start_pattern, 0, desc_block))
        after(lines, not_met_idx) ==
          IF not_met_idx = 0 THEN Raise
          ELSE blocks(join(<<NL>>, SubSeq(lines, not_met_idx + 1, Len(lines))))
        of(lines) == after(lines, index_of(lines, <<"Not Met">>))
    IN of(stripped_lines(scoring_text))

\* the dictionary json.dumps writes, keys in insertion order
format_scoring(scoring_text) ==
    LET rule(matches, descriptions) ==
          IF Len(matches) # Len(categories) THEN Raise
          ELSE Ok([i \in 1..zip_len(categories, descriptions) |->
                      <<label(categories[i]), scoring_entry(descriptions[i])>>])
        split(desc_block, matches) == rule(matches, scoring_descriptions(desc_block, matches))
        blocks(desc_block) ==
          IF desc_block = <<>> THEN Raise
          ELSE split(desc_block, FindIter(description_start_pattern, 0, desc_block))
        after(lines, not_met_idx) ==
          IF not_met_idx = 0 THEN Raise
          ELSE blocks(join(<<NL>>, SubSeq(lines, not_met_idx + 1, Len(lines))))
        of(lines) == after(lines, index_of(lines, <<"Not Met">>))
    IN of(stripped_lines(scoring_text))

(***************************************************************************)
(* mylib/document.py.  None is the value <<"None">>.                       *)
(***************************************************************************)
None == <<"None">>

\* Effective for Surveys On or After\s+([A-Za-z]+\s+\d{1,2},\s+\d{4})  with re.IGNORECASE
date_pattern ==
    <<"seq", << Lit("Effective for Surveys On or After"), Plus(WS),
                <<"grp", 1, <<"seq", << Plus(<<"set", Alphabetic>>), Plus(WS),
                                        <<"rep", Digit, 1, 2, TRUE>>, Lit(","), Plus(WS),
                                        <<"rep", Digit, 4, 4, TRUE>> >> >> >> >> >>

\* %B: the full month names, here those of the vocabulary
MonthNumber(word) == CASE word = "July" -> 7 [] word = "February" -> 2 [] OTHER -> 0

IsLeap(year) == year % 4 = 0 /\ (year % 100 # 0 \/ year % 400 = 0)
DaysIn(month, year) == CASE month = 2 -> IF IsLeap(year) THEN 29 ELSE 28
                         [] month \in {4, 6, 9, 11} -> 30
                         [] OTHER -> 31

pad2(n) == IF n < 10 THEN <<"0">> \o str_int(n) ELSE str_int(n)

\* %B\s+%d,\s+%Y
strptime_pattern ==
    <<"seq", << <<"bos">>, <<"grp", 1, <<"set", {"July", "February"}>> >>, Plus(WS),
                <<"grp", 2, <<"rep", Digit, 1, 2, TRUE>> >>, Lit(","), Plus(WS),
                <<"grp", 3, <<"rep", Digit, 4, 4, TRUE>> >>, <<"eos">> >> >>

\* datetime.strptime(date_str, "%B %d, %Y").date().isoformat(), or None on ValueError
parse_date(date_str) ==
    LET iso(m, month, day, year) ==
          IF year < 1 \/ day < 1 \/ day > DaysIn(month, year) THEN None
          ELSE Group(date_str, m, 3) \o <<"-">> \o pad2(month) \o <<"-">> \o pad2(day)
        parsed(m) ==
          IF ~m.ok THEN None
          ELSE iso(m, MonthNumber(Group(date_str, m, 1)[1]), int_str(Group(date_str, m, 2)),
                   int_str(Group(date_str, m, 3)))
    IN parsed(MatchAt(strptime_pattern, 3, date_str, 1))

\* pages[1] raises IndexError on a document of fewer than two pages
get_date(pages) ==
    IF Len(pages) < 2 THEN Raise
    ELSE LET date_of(second_page, match) ==
               IF ~match.ok THEN Ok(None)
               ELSE Ok(parse_date(strip(Group(second_page, match, 1))))
         IN date_of(pages[2], Search(date_pattern, 1, pages[2]))

\* date.split("-")[0]; None has no split
get_year_from_date(date) == IF date = None THEN Raise ELSE Ok(split_on(date, "-")[1])

ignore_words == {"Effective for Surveys On or After", "Standards and Guidelines",
                 "HP Standards", "NCQA", "ncqa"}

RECURSIVE filter_lines(_)
filter_lines(lines) ==
    IF lines = <<>> THEN <<>>
    ELSE IF \E i \in 1..Len(Head(lines)) : Head(lines)[i] \in ignore_words
         THEN filter_lines(Tail(lines))
         ELSE <<Head(lines)>> \o filter_lines(Tail(lines))

get_functional_area(pages) ==
    IF pages = <<>> THEN Raise
    ELSE LET area(filtered, title) ==
               IF filtered = <<>> THEN Raise
               ELSE IF title = <<>> THEN Raise
               ELSE Ok(title)
             of(filtered) == area(filtered, collapse_ws(strip(join(<<SP>>, filtered))))
         IN of(filter_lines(stripped_lines(pages[1])))

(***************************************************************************)
(* mylib/standard.py: pages grouped by standard                            *)
(***************************************************************************)
\* [A-Z]{2,4}, on letters and on the words spelled in capitals
caps_2_to_4 ==
    <<"alt", << <<"seq", << <<"set", Caps3>>, <<"set", Upper1>> >> >>,
                <<"seq", << <<"set", Upper1>>, <<"set", Caps3>> >> >>,
                <<"set", Caps4>>,
                <<"set", Caps3>>,
                <<"rep", <<"set", Upper1>>, 2, 4, TRUE>> >> >>

\* ^[A-Z]{2,4}\s*\d+[A-Z0-9.: -]*:
standard_pattern ==
    <<"seq", << <<"bos">>, caps_2_to_4, Star(WS), Plus(Digit),
                Star(<<"set", Upper1 \cup AllCaps \cup Digits \cup {".", ":", SP, "-"}>>),
                Lit(":") >> >>

\* ^[A-Z]{2,4}\s*\d+[A-Z0-9.: -]*:.*
standard_line_pattern == <<"seq", <<standard_pattern, Star(Dot)>> >>

\* "\n".join(lines[4:]).strip()
page_body(lines) == strip(join(<<NL>>, Slice(lines, 5, Len(lines) + 1)))

\* the loop of separate_pages_by_standard over pages[i..]
RECURSIVE pages_loop(_, _, _)
pages_loop(pages, i, standards) ==
    IF i > Len(pages) THEN Ok(standards)
    ELSE LET add(lines, current_standard) ==
               pages_loop(pages, i + 1,
                   DictSet(standards, current_standard,
                           (IF HasKey(standards, current_standard)
                            THEN DictGet(standards, current_standard) ELSE <<>>)
                           \o <<NL>> \o page_body(lines)))
             page(lines, match) ==
               IF ~match.ok THEN Raise
               ELSE add(lines, strip(Group0(lines[1], match)))
             of(lines) ==
               IF lines = <<>> THEN Raise
               ELSE page(lines, MatchAt(standard_line_pattern, 0, lines[1], 1))
         IN of(stripped_lines(pages[i]))

\* separate_pages_by_standard without the final strip of the bodies
separate_pages_untrimmed(pages) == pages_loop(pages, 1, <<>>)

separate_pages_by_standard(pages) ==
    LET stripped(standards) ==
          IF standards.st = "raise" THEN Raise
          ELSE Ok([k \in 1..Len(standards.val) |->
                      <<standards.val[k][1], strip(standards.val[k][2])>>])
    IN stripped(pages_loop(pages, 1, <<>>))

\* the loop of separate_pages_by_standard_v2 over pages[i..]; current_standard is
\* None until the first standard begins
RECURSIVE pages_loop_v2(_, _, _, _, _)
pages_loop_v2(pages, i, standards, current_standard, current_text) ==
    IF i > Len(pages)
    THEN IF current_standard # None /\ current_standard # <<>> /\ current_text # <<>>
         THEN DictSet(standards, current_standard, strip(join(<<NL>>, current_text)))
         ELSE standards
    ELSE LET page(lines, new_standard_match, open) ==
               IF new_standard_match.ok
               THEN pages_loop_v2(pages, i + 1,
                       IF open THEN DictSet(standards, current_standard,
                                            strip(join(<<NL>>, current_text)))
                       ELSE standards,
                       strip(lines[1]),
                       (IF open THEN <<>> ELSE current_text) \o <<page_body(lines)>>)
               ELSE pages_loop_v2(pages, i + 1, standards, current_standard,
                                  current_text \o <<page_body(lines)>>)
             of(lines) ==
               IF Len(lines) < 5
               THEN pages_loop_v2(pages, i + 1, standards, current_standard, current_text)
               ELSE page(lines, MatchAt(standard_pattern, 0, lines[5], 1),
                         current_standard # None /\ current_standard # <<>>)
         IN of(stripped_lines(pages[i]))

separate_pages_by_standard_v2(pages) == pages_loop_v2(pages, 1, <<>>, None, <<>>)

\* standard_header.split(':')[0].strip()
standard_get_index(standard_header) == strip(split_on(standard_header, ":")[1])

\* standard_header.split(':')[1].strip(); IndexError on a header without a colon
standard_get_title(standard_header) ==
    LET second(parts) == IF Len(parts) < 2 THEN Raise ELSE Ok(strip(parts[2]))
    IN second(split_on(standard_header, ":"))


(***************************************************************************)
(* mylib/element.py: the sections of an element body                       *)
(***************************************************************************)
\* element_body.startswith("Not Applicable")
not_applicable(element_body) == element_body # <<>> /\ element_body[1] = "Not Applicable"

\* (?ms)^(.*?)(?=^(\*Critical|Scoring))   with re.IGNORECASE
factors_text_pattern ==
    <<"seq", << <<"bol">>, <<"grp", 1, LazyStar(<<"any">>)>>,
                <<"la", <<"seq", << <<"bol">>,
                    <<"alt", << <<"seq", << Lit("*"), <<"set", CriticalWord>> >> >>,
                                <<"set", {"Scoring", "scoring"}>> >> >> >> >> >> >> >>

get_factors_text(element_body) ==
    LET text_of(match) == IF ~match.ok THEN Raise ELSE Ok(strip(Group(element_body, match, 1)))
    IN IF not_applicable(element_body) THEN Ok(<<>>)
       ELSE text_of(Search(factors_text_pattern, 1, element_body))

\* (?ms)^Explanation\s*(.*?)^Examples\s*\n   with re.IGNORECASE
element_explanation_pattern ==
    <<"seq", << <<"bol">>, <<"set", {"Explanation", "explanation"}>>, Star(WS),
                <<"grp", 1, LazyStar(<<"any">>)>>,
                <<"bol">>, <<"set", {"Examples", "examples"}>>, Star(WS), Lit(NL) >> >>

element_get_explanation(element_body) ==
    LET checked(explanation_text) == IF explanation_text = <<>> THEN Raise ELSE Ok(explanation_text)
        text_of(match) == IF ~match.ok THEN Raise ELSE checked(strip(Group(element_body, match, 1)))
    IN IF not_applicable(element_body) THEN Ok(element_body)
       ELSE text_of(Search(element_explanation_pattern, 1, element_body))

\* the Factor record of factor i, or Raise when one of its parts raises
make_factor(element_explanation, element_factors, i) ==
    LET record(factor_title, factor_description, factor_explanation) ==
          IF factor_title.st = "raise" \/ factor_description.st = "raise"
             \/ factor_explanation.st = "raise"
          THEN Raise
          ELSE Ok([factor_index |-> factor_get_index(element_factors, i),
                   factor_title |-> factor_title.val,
                   factor_description |-> factor_description.val,
                   factor_explanation |-> factor_explanation.val,
                   factor_critical |-> check_critical(element_factors, i)])
    IN record(factor_get_title(element_explanation, element_factors, i),
              get_description(element_factors, i),
              factor_get_explanation(element_explanation, i))

\* for i in range(1, num_factors + 1): factors.append(Factor(...))
RECURSIVE factors_loop(_, _, _, _)
factors_loop(element_explanation, element_factors, i, num_factors) ==
    IF i > num_factors THEN Ok(<<>>)
    ELSE LET append(f, later) ==
               IF f.st = "raise" \/ later.st = "raise" THEN Raise
               ELSE Ok(<<f.val>> \o later.val)
         IN append(make_factor(element_explanation, element_factors, i),
                   factors_loop(element_explanation, element_factors, i + 1, num_factors))

element_to_factors(element_body) ==
    LET factors(element_factors, element_explanation) ==
          IF element_factors.st = "raise" THEN Raise
          ELSE IF element_explanation.st = "raise" THEN Raise
          ELSE factors_loop(element_explanation.val, element_factors.val, 1,
                            get_num_factors(element_factors.val))
    IN factors(get_factors_text(element_body), element_get_explanation(element_body))

(***************************************************************************)
(* mylib/element.py: the fields of an element                              *)
(***************************************************************************)
\* ^(Element\s+[A-Z]{1,2})\s*:
element_index_pattern ==
    <<"seq", << <<"bos">>, <<"grp", 1, <<"seq", << Lit("Element"), Plus(WS),
                                                   <<"rep", <<"set", Upper1>>, 1, 2, TRUE>> >> >> >>,
                Star(WS), Lit(":") >> >>

element_get_index(element_header) ==
    LET index_of_header(h, match) == IF match.ok THEN Group(h, match, 1) ELSE None
        of(h) == index_of_header(h, MatchAt(element_index_pattern, 1, h, 1))
    IN of(strip(element_header))

\* element_header.split(":", 1)
element_get_title(element_header) ==
    LET after(colons) ==
          IF colons = {} THEN None
          ELSE strip(Slice(element_header, Min(colons) + 1, Len(element_header) + 1))
    IN after({i \in 1..Len(element_header) : element_header[i] = ":"})

\* (?ms)^Scoring\s*(.*?)^(?:Data|Scope of|Documentation|Look-back|Explanation|
\*                        Factor\s+\d+:|Exceptions|Related information|Examples|$)
scoring_text_pattern ==
    <<"seq", << <<"bol">>, Lit("Scoring"), Star(WS), <<"grp", 1, LazyStar(<<"any">>)>>, <<"bol">>,
                <<"alt", << Lit("Data"), Lit("Scope of"), Lit("Documentation"), Lit("Look-back"),
                            Lit("Explanation"),
                            <<"seq", << Lit("Factor"), Plus(WS), Plus(Digit), Lit(":") >> >>,
                            Lit("Exceptions"), Lit("Related information"), Lit("Examples"),
                            <<"eol">> >> >> >> >>

get_scoring_text(element_body) ==
    LET text_of(match) == IF ~match.ok THEN Raise ELSE Ok(strip(Group(element_body, match, 1)))
    IN text_of(Search(scoring_text_pattern, 1, element_body))

\* what the call to the language model of format_scoring_gpt may give: an error,
\* or the JSON text of a validated ScoringStructure
GptReplies == {Raise, Ok(<<"ScoringStructure">>)}

\* get_scoring, given the reply the language model gives if it is called
get_scoring(element_body, reply) ==
    IF not_applicable(element_body) THEN Ok(<<>>)
    ELSE IF get_scoring_text(element_body).st = "raise" THEN Raise
    ELSE reply

\* [src.strip() for src in next_line.split(",") if src.strip()]
sources_of(next_line) == nonblank_stripped(split_on(next_line, ","))

\* the loop of get_data_source over lines[i..]
RECURSIVE data_source_loop(_, _)
data_source_loop(lines, i) ==
    IF i > Len(lines) THEN Raise
    ELSE IF lower(lines[i]) = <<"data", SP, "source">>
         THEN IF i + 1 > Len(lines) THEN Raise ELSE Ok(sources_of(lines[i + 1]))
    ELSE IF lower(lines[i]) = <<"data">>
         THEN IF i + 2 > Len(lines) THEN Raise ELSE Ok(sources_of(lines[i + 2]))
    ELSE data_source_loop(lines, i + 1)

\* get_data_source without the early return for a body that does not apply
get_data_source_scanning(element_body) == data_source_loop(stripped_lines(element_body), 1)

get_data_source(element_body) ==
    IF not_applicable(element_body) THEN Ok(<<>>)
    ELSE data_source_loop(stripped_lines(element_body), 1)

\* the number of characters of s[1..k]
RECURSIVE chars_upto(_, _)
chars_upto(s, k) == IF k = 0 THEN 0 ELSE chars_upto(s, k - 1) + Width(s[k])

MustPassWindow == 50

\* "MUST-PASS" in element_explanation[:50].upper()
check_must_pass(element_explanation) ==
    \E k \in 1..Len(element_explanation) :
        /\ k <= MustPassWindow
        /\ element_explanation[k] \in {"MUST-PASS", "must-pass"}
        /\ chars_upto(element_explanation, k) <= MustPassWindow

(***************************************************************************)
(* workflows.py: the rows of an element                                    *)
(***************************************************************************)
SOURCE == <<"NCQA Health Plan Standards">>

COLUMNS == <<"source", "functional_area", "standard_index", "standard_title",
             "element_index", "element_title", "element_scoring", "element_data_source",
             "element_must_pass", "element_explanation", "element_num_factors",
             "element_reference", "factor_index", "factor_title", "factor_description",
             "factor_explanation", "factor_critical", "factor_reference",
             "effective_date", "updated_at">>

\* datetime.now().strftime("%Y-%m-%d"): the day of the run
Today == <<"today">>

\* the row of one factor; fact holds the five factor fields of the row
Row(loc, elem, fact, factor_reference) ==
    [source |-> SOURCE,
     functional_area |-> loc.functional_area,
     standard_index |-> loc.std_index,
     standard_title |-> loc.std_title,
     element_index |-> elem.index,
     element_title |-> elem.title,
     element_scoring |-> elem.scoring,
     element_data_source |-> elem.data_source,
     element_must_pass |-> elem.must_pass,
     element_explanation |-> elem.explanation,
     element_num_factors |-> elem.num_factors,
     element_reference |-> elem.ref,
     factor_index |-> fact.factor_index,
     factor_title |-> fact.factor_title,
     factor_description |-> fact.factor_description,
     factor_explanation |-> fact.factor_explanation,
     factor_critical |-> fact.factor_critical,
     factor_reference |-> factor_reference,
     effective_date |-> loc.effective_date,
     updated_at |-> Today]

\* the factor fields of the row of an element without factors, the text kept as it is
blank_factor_keeping_newlines(elem_factors_text) ==
    [factor_index |-> <<>>,
     factor_title |-> <<>>,
     factor_description |-> elem_factors_text,
     factor_explanation |-> <<>>,
     factor_critical |-> <<>>]

\* the factor fields of the row of an element without factors
blank_factor(elem_factors_text) ==
    [factor_index |-> <<>>,
     factor_title |-> <<>>,
     factor_description |-> replace(elem_factors_text, NL, <<SP>>),
     factor_explanation |-> <<>>,
     factor_critical |-> <<>>]

\* the body of the loop over elements_dict.items(): the rows appended for one
\* element, or Raise when a step raises; reply is what the language model answers
element_rows(loc, elem_header, elem_body, reply) ==
    LET rows(elem, elem_factors, elem_factors_text) ==
          IF Len(elem_factors) = 0
          THEN <<Row(loc, elem, blank_factor(elem_factors_text), elem.ref)>>
          ELSE [i \in 1..Len(elem_factors) |->
                   Row(loc, elem, elem_factors[i],
                       join(<<",", SP>>, <<elem.ref, elem_factors[i].factor_index>>))]
        fields(elem_index, elem_title, elem_scoring, elem_data_source, elem_explanation,
               elem_factors, elem_factors_text) ==
          IF \/ elem_scoring.st = "raise" \/ elem_data_source.st = "raise"
             \/ elem_explanation.st = "raise"
             \/ elem_index = None                       \* join() of a None raises TypeError
             \/ elem_factors.st = "raise" \/ elem_factors_text.st = "raise"
          THEN Raise
          ELSE Ok(rows([index |-> elem_index,
                        title |-> elem_title,
                        scoring |-> elem_scoring.val,
                        data_source |-> elem_data_source.val,
                        must_pass |-> check_must_pass(elem_explanation.val),
                        explanation |-> elem_explanation.val,
                        num_factors |-> Len(elem_factors.val),
                        ref |-> join(<<",", SP>>,
                                     <<SOURCE, loc.year, loc.std_index, elem_index>>)],
                       elem_factors.val, elem_factors_text.val))
    IN fields(element_get_index(elem_header), element_get_title(elem_header),
              get_scoring(elem_body, reply), get_data_source(elem_body),
              element_get_explanation(elem_body), element_to_factors(elem_body),
              get_factors_text(elem_body))

\* the local variables of parse_pdf_incremental while no document is open
NoLocal ==
    [functional_area |-> <<>>, effective_date |-> <<>>, year |-> <<>>, standards |-> <<>>,
     write_header |-> FALSE, s |-> 0, std_index |-> <<>>, std_title |-> <<>>,
     elements_dict |-> <<>>, e |-> 0, rows |-> <<>>]

\* the batch takes no part in the application of a pure function to a text
Idle ==
    /\ pdf_files = <<>> /\ pos = 0 /\ pc = "none" /\ local = NoLocal
    /\ csv = [exists |-> FALSE, lines |-> <<>>]
    /\ calls = <<>> /\ errors = <<>> /\ written = <<>>

(***************************************************************************)
(* Inputs: a text of the program is a sequence of non-blank lines without *)
(* leading or trailing whitespace, joined by line breaks (each page is    *)
(* read as [line.strip() for line in text.splitlines() if line.strip()]). *)
(***************************************************************************)
SeqsUpTo(S, n) == UNION {[1..k -> S] : k \in 0..n}
Texts(lines, n) == {join(<<NL>>, ls) : ls \in SeqsUpTo(lines, n)}

MaxBodyLines == 3

BodyLines ==
    { <<"Element", SP, "A", ":", SP, "T">>,        \* Element A: T
      <<"Element", SP, "B", ":", SP, "T">>,        \* Element B: T
      <<"Element", SP, "A", "B", ":", SP, "T">>,   \* Element AB: T   (two-letter index)
      <<"Element", SP, "C", ":">>,                 \* Element C:      (title on the next line)
      <<"x", SP, "y">>,                            \* body text
      <<"Foo">> }                                  \* body text

StandardBodies == Texts(BodyLines, MaxBodyLines)

InitElements ==
    /\ fn = "standard_to_elements"
    /\ arg \in StandardBodies
    /\ res = Pending
    /\ Idle

CallElements ==
    /\ fn = "standard_to_elements"
    /\ res = Pending
    /\ res' = standard_to_elements(arg)
    /\ UNCHANGED <<fn, arg>>
    /\ UNCHANGED wvars

SpecElements == InitElements /\ [][CallElements]_vars

(***************************************************************************)
(* check_critical on factors texts                                         *)
(***************************************************************************)
MaxCritLines == 3
MaxIndex == 2

CritLines ==
    { <<"1", ".", SP, "Foo", "*">>,                  \* 1. Foo*
      <<"1", ".", SP, "Foo">>,                       \* 1. Foo
      <<"2", ".", SP, "Bar", "*">>,                  \* 2. Bar*
      <<"2", ".", SP, "Bar">>,                       \* 2. Bar
      <<"x", "*">>,                                  \* x*   (a wrapped line ending in *)
      <<"*", "Critical", SP, "factors", SP, "x">>,   \* *Critical factors x
      <<"*", "critical", SP, "factors", SP, "x">>,   \* *critical factors x
      <<"*", "Critical", SP, "factors", "x">> }      \* *Critical factorsx

InitCritical ==
    /\ fn = "check_critical"
    /\ arg \in [text : Texts(CritLines, MaxCritLines), index : 1..MaxIndex]
    /\ res = Pending
    /\ Idle

CallCritical ==
    /\ fn = "check_critical"
    /\ res = Pending
    /\ res' = Ok(check_critical(arg.text, arg.index))
    /\ UNCHANGED <<fn, arg>>
    /\ UNCHANGED wvars

SpecCritical == InitCritical /\ [][CallCritical]_vars

(***************************************************************************)
(* What the claims say of a factors text, stated on positions and lines   *)
(* without the matcher.                                                    *)
(***************************************************************************)
BeginsWith(s, pre) == Len(s) >= Len(pre) /\ SubSeq(s, 1, Len(pre)) = pre
From(s, p) == Slice(s, p, Len(s) + 1)
LineStarts(s) == {1} \cup {p + 1 : p \in {q \in 1..Len(s) : s[q] = NL}}

\* at line start p: a number, a period and a whitespace symbol
NumberedLineAt(s, p) ==
    /\ p \in LineStarts(s)
    /\ \E q \in (p + 1)..(Len(s) - 1) :
          /\ \A r \in p..(q - 1) : s[r] \in Digits
          /\ s[q] = "."
          /\ s[q + 1] \in Whitespace

\* the line starts at which the line begins with "<index>."
IndexLineStarts(s, index) ==
    {p \in LineStarts(s) : p <= Len(s) /\ BeginsWith(From(s, p), str_int(index) \o <<".">>)}

\* factor index's own block: the text after "<index>." on the first line that
\* begins with it, up to the next numbered line, a "*Critical" marker or the end
OwnBlock(s, index) ==
    IF IndexLineStarts(s, index) = {} THEN <<>>
    ELSE LET p == Min(IndexLineStarts(s, index))
             b == p + Len(str_int(index)) + 1
             stops == {q \in b..Len(s) : q > b /\ NumberedLineAt(s, q)}
                      \cup {q \in b..(Len(s) - 1) : s[q] = "*" /\ s[q + 1] = "Critical"}
                      \cup {Len(s) + 1}
         IN Slice(s, b, Min(stops))

EndsWithAsterisk(block) == rstrip(block) # <<>> /\ rstrip(block)[Len(rstrip(block))] = "*"

\* some line begins with "*Critical factors", in exactly this spelling
HasFootnoteLine(s) ==
    \E p \in LineStarts(s) : BeginsWith(From(s, p), <<"*", "Critical", SP, "factors">>)

\* some line begins with "*critical factors" in any letter case, and the word
\* "factors" ends there
HasFootnoteAnyCase(s) ==
    \E p \in LineStarts(s) :
        /\ Len(From(s, p)) >= 4
        /\ s[p] = "*" /\ s[p + 1] \in CriticalWord /\ s[p + 2] = SP /\ s[p + 3] \in FactorsWord
        /\ (p + 4 > Len(s) \/ s[p + 4] \notin WordSyms)

CriticalCalled == fn = "check_critical" /\ res # Pending

MaxExplChunks == 3
MaxExplIndex == 4

ExplChunks ==
    { <<"Factors", SP, "1", ",", "3", NL, "AAA">>,   \* Factors 1,3 / AAA
      <<"Factors", SP, "2", NL, "BBB">>,             \* Factors 2 / BBB
      <<"Factor", SP, "2", ":", SP, "T">>,           \* Factor 2: T   (header with a title)
      <<"Factors", SP, "2", "-", "4">>,              \* Factors 2-4   (header with a range)
      <<"AAA">>,                                     \* content
      <<"Exceptions">>,                              \* the line that ends the factor blocks
      <<"2">> }                                      \* a line of digits only

InitExplanation ==
    /\ fn = "get_explanation"
    /\ arg \in [text : Texts(ExplChunks, MaxExplChunks), index : 1..MaxExplIndex]
    /\ res = Pending
    /\ Idle

CallExplanation ==
    /\ fn = "get_explanation"
    /\ res = Pending
    /\ res' = factor_get_explanation(arg.text, arg.index)
    /\ UNCHANGED <<fn, arg>>
    /\ UNCHANGED wvars

SpecExplanation == InitExplanation /\ [][CallExplanation]_vars

(***************************************************************************)
(* What C7 and C8 say of an explanation text, stated on its lines.  A     *)
(* block is a header line "Factor(s) <spec>" or "Factor(s) <spec>: title" *)
(* that a line break follows, with the lines after it up to the next line *)
(* that begins with "Factor(s) <digit>", "Exception(s)" or "Related       *)
(* information", or up to the end of the text.                             *)
(***************************************************************************)
SpecSyms == Digits \cup {","} \cup Dashes \cup Whitespace

\* the part of a header line between "Factor(s)" and the colon or the line end
SpecPart(line) ==
    LET after == Tail(line)
        colons == {q \in 1..Len(after) : after[q] = ":"}
    IN IF colons = {} THEN after ELSE Slice(after, 1, Min(colons))

IsHeaderLine(line) ==
    /\ Len(line) >= 3
    /\ line[1] \in FactorWord \cup FactorsWord
    /\ line[2] \in Whitespace
    /\ Len(SpecPart(line)) >= 2
    /\ \A q \in 1..Len(SpecPart(line)) : SpecPart(line)[q] \in SpecSyms

EndsBlock(line) ==
    \/ Len(line) >= 3 /\ line[1] \in FactorWord \cup FactorsWord /\ line[2] \in Whitespace
       /\ \E q \in 3..Len(line) : line[q] \in Digits /\ \A r \in 3..(q - 1) : line[r] \in Whitespace
    \/ line # <<>> /\ line[1] \in {"Exception", "Exceptions", "Related information"}

\* the numbers of the header lines that head a block
BlockHeads(lines) == {j \in 1..(Len(lines) - 1) : IsHeaderLine(lines[j])}

\* the contents of the block headed by line j
BlockContents(lines, j) ==
    LET stops == {k \in (j + 1)..Len(lines) : EndsBlock(lines[k])} \cup {Len(lines) + 1}
    IN join(<<NL>>, SubSeq(lines, j + 1, Min(stops) - 1))

\* one part of a comma list: "a-b" is a..b, "n" is {n}
PartSet(part) ==
    LET pieces == split_on(part, "-")
    IN IF Len(pieces) = 2 /\ isdigit(pieces[1]) /\ isdigit(pieces[2])
       THEN int_str(pieces[1])..int_str(pieces[2])
       ELSE IF isdigit(part) THEN {int_str(part)} ELSE {}

\* the factor numbers a header line names
HeaderSet(line) ==
    LET parts == split_on(normal_spec(SpecPart(line)), ",")
    IN UNION {PartSet(parts[q]) : q \in 1..Len(parts)}

\* the block heads that name index, in document order
RECURSIVE HeadsFrom(_, _, _)
HeadsFrom(lines, j, index) ==
    IF j > Len(lines) THEN <<>>
    ELSE (IF j \in BlockHeads(lines) /\ index \in HeaderSet(lines[j]) THEN <<j>> ELSE <<>>)
         \o HeadsFrom(lines, j + 1, index)

\* the space-joined contents of the blocks that name index
JoinedContents(lines, index) ==
    LET heads == HeadsFrom(lines, 1, index)
    IN strip(join(<<SP>>, [q \in 1..Len(heads) |->
                               collapse_ws(strip(BlockContents(lines, heads[q])))]))

ExplanationCalled == fn = "get_explanation" /\ res # Pending
ExplLines == split_on(arg.text, NL)

\* C7: when the text has a block and some block names index i, get_explanation
\* returns the space-joined contents, in document order, of exactly the blocks
\* whose comma list (ranges expanded inclusively) contains i.
C7_JoinedBlocks ==
    (ExplanationCalled /\ HeadsFrom(ExplLines, 1, arg.index) # <<>>)
        => res = Ok(JoinedContents(ExplLines, arg.index))

MaxScoreLines == 5

ScoreLines ==
    { <<"Not Met">>,                                                   \* Not Met
      <<"The organization", SP, "meets", SP, "5", SP, "factors">>,    \* ... meets 5 factors
      <<"The organization", SP, "meets", SP, "3", "-", "4", SP, "factors">>,  \* ... 3-4 factors
      <<"No scoring">>,                                                \* no factor count
      <<"of", SP, "2", SP, "factors">> }                               \* a wrapped line: of 2 factors

InitScoring ==
    /\ fn = "format_scoring"
    /\ arg \in Texts(ScoreLines, MaxScoreLines)
    /\ res = Pending
    /\ Idle

CallScoring ==
    /\ fn = "format_scoring"
    /\ res = Pending
    /\ res' = format_scoring(arg)
    /\ UNCHANGED <<fn, arg>>
    /\ UNCHANGED wvars

SpecScoring == InitScoring /\ [][CallScoring]_vars

(***************************************************************************)
(* What C9 and C10 say of a scoring text and of the rule returned for it, *)
(* stated on lines and positions.                                          *)
(***************************************************************************)
ScoringCalled == fn = "format_scoring" /\ res # Pending
ScoringLines == split_on(arg, NL)

\* the lines after the first line "Not Met" (none when there is no such line)
AfterNotMet ==
    LET at == {j \in 1..Len(ScoringLines) : ScoringLines[j] = <<"Not Met">>}
    IN IF at = {} THEN <<>> ELSE SubSeq(ScoringLines, Min(at) + 1, Len(ScoringLines))

HasNotMet == \E j \in 1..Len(ScoringLines) : ScoringLines[j] = <<"Not Met">>

\* the lines after "Not Met" that start with an upper-case letter
UpperLines == {j \in 1..Len(AfterNotMet) : AfterNotMet[j][1] \in UpperStart}

\* the i-th span: from the i-th such line up to the next one or the end
NthUpper(i) == CHOOSE j \in UpperLines : Cardinality({k \in UpperLines : k < j}) = i - 1
Span(i) ==
    LET from == NthUpper(i)
        later == {k \in UpperLines : k > from} \cup {Len(AfterNotMet) + 1}
    IN join(<<SP>>, SubSeq(AfterNotMet, from, Min(later) - 1))

C10_WitnessRaise ==
    /\ ScoringCalled
    /\ res = Raise
    /\ Cardinality(UpperLines) = 4

\* the end of the run of digits that starts at position p of d
DigitRunEnd(d, p) == Min({q \in p..(Len(d) + 1) : q > Len(d) \/ d[q] \notin Digits})

\* from position q: optional whitespace, then "factor" or "factors" (any case)
FactorsAt(d, q) ==
    \E r \in q..Len(d) : d[r] \in FactorWord \cup FactorsWord /\ \A k \in q..(r - 1) : d[k] \in Whitespace

\* a range phrase "a-b factors" starts at p
RangeAt(d, p) ==
    /\ p <= Len(d) /\ d[p] \in Digits
    /\ LET q == DigitRunEnd(d, p)
       IN q + 1 <= Len(d) /\ d[q] = "-" /\ d[q + 1] \in Digits /\ FactorsAt(d, DigitRunEnd(d, q + 1))

\* a single count "n factors" starts at p
SingleAt(d, p) == p <= Len(d) /\ d[p] \in Digits /\ FactorsAt(d, DigitRunEnd(d, p))

PhraseStarts(d) == {p \in 1..Len(d) : RangeAt(d, p) \/ SingleAt(d, p)}
NumberAt(d, p) == int_str(Slice(d, p, DigitRunEnd(d, p)))

\* what C9 says of one entry: decided by the leftmost factor-count phrase of
\* its description
EntryAsClaimed(entry) ==
    LET d == DictGet(entry, "description")
        p == Min(PhraseStarts(d))
    IN IF PhraseStarts(d) = {} THEN DictKeys(entry) = <<"description">>
       ELSE /\ DictKeys(entry) = <<"description", "min_num_factors", "max_num_factors">>
            /\ DictGet(entry, "min_num_factors") = NumberAt(d, p)
            /\ DictGet(entry, "max_num_factors") =
                  IF RangeAt(d, p) THEN NumberAt(d, DigitRunEnd(d, p) + 1) ELSE NumberAt(d, p)

\* C9: in each of the three entries, a description with a range phrase
\* "a-b factors" has min = a and max = b, one with a single count "n factors"
\* has min = max = n, and one with no factor-count phrase has neither key.
C9_FactorCounts ==
    (ScoringCalled /\ res.st = "ok") => \A i \in 1..Len(res.val) : EntryAsClaimed(res.val[i][2])

\* C9 witness: a rule with a range entry (3, 4), a single-count entry (5, 5)
\* and an entry without counts
C9_Witness ==
    /\ ScoringCalled
    /\ res.st = "ok"
    /\ \E i \in 1..3 : /\ DictKeys(res.val[i][2]) = <<"description", "min_num_factors", "max_num_factors">>
                       /\ DictGet(res.val[i][2], "min_num_factors") = 3
                       /\ DictGet(res.val[i][2], "max_num_factors") = 4
    /\ \E i \in 1..3 : /\ DictKeys(res.val[i][2]) = <<"description", "min_num_factors", "max_num_factors">>
                       /\ DictGet(res.val[i][2], "min_num_factors") = 5
                       /\ DictGet(res.val[i][2], "max_num_factors") = 5
    /\ \E i \in 1..3 : DictKeys(res.val[i][2]) = <<"description">>

(***************************************************************************)
(* element_to_factors on element bodies: a factor list, the Scoring line,  *)
(* and an Explanation section that may lack its parts.                     *)
(***************************************************************************)
MaxFactorLines == 2
MaxFactorChunks == 1

FactorLines ==
    { <<"Foo", ":">>,                               \* Foo:
      <<"1", ".", SP, "Foo">>,                      \* 1. Foo
      <<"2", ".", SP, "Bar", "*">>,                 \* 2. Bar*
      <<"3", ".", SP, "Foo">>,                      \* 3. Foo
      <<"Not Applicable">>,
      <<"2", ".", SP, "Bar", "*", NL,               \* 2. Bar* / *Critical factors
        "*", "Critical", SP, "factors">> }

FactorChunks ==
    { <<"Factor", SP, "1", ":", SP, "Foo", NL, "AAA">>,      \* Factor 1: Foo / AAA
      <<"Factors", SP, "1", "-", "2", NL, "BBB">>,           \* Factors 1-2 / BBB
      <<"Factor", SP, "2", ":", SP, "Bar", NL, "AAA">> }     \* Factor 2: Bar / AAA

ExplanationSections ==
    {<<>>} \cup { join(<<NL>>, << <<"Explanation">> >> \o chunks \o tail) :
                    chunks \in SeqsUpTo(FactorChunks, MaxFactorChunks),
                    tail \in {<<>>, << <<"Examples">>, <<"x">> >>} }

ElementBodies ==
    { join(<<NL>>, (IF list = <<>> THEN <<>> ELSE <<list>>) \o << <<"Scoring">> >>
                   \o (IF section = <<>> THEN <<>> ELSE <<section>>)) :
        list \in Texts(FactorLines, MaxFactorLines), section \in ExplanationSections }

InitFactors ==
    /\ fn = "element_to_factors"
    /\ arg \in ElementBodies
    /\ res = Pending
    /\ Idle

CallFactors ==
    /\ fn = "element_to_factors"
    /\ res = Pending
    /\ res' = element_to_factors(arg)
    /\ UNCHANGED <<fn, arg>>
    /\ UNCHANGED wvars

SpecFactors == InitFactors /\ [][CallFactors]_vars

(***************************************************************************)
(* What C5 says of an element body and of the records returned for it.     *)
(***************************************************************************)
FactorsCalled == fn = "element_to_factors" /\ res # Pending

\* where the factor list ends: the first line that begins with "*Critical" or
\* with "Scoring" (in any letter case), or 0 when there is no such line
ListEnd(s) ==
    LET ends == {p \in LineStarts(s) :
                    /\ p <= Len(s)
                    /\ \/ s[p] \in {"Scoring", "scoring"}
                       \/ (p < Len(s) /\ s[p] = "*" /\ s[p + 1] \in CriticalWord)}
    IN IF ends = {} THEN 0 ELSE Min(ends)

\* N: the number of numbered lines of the factor list; the list of an element
\* that begins with "Not Applicable" is empty
NumberedLines(s) ==
    IF not_applicable(s) THEN 0
    ELSE Cardinality({p \in LineStarts(s) : p < ListEnd(s) /\ NumberedLineAt(s, p)})

\* the element body has a factor list
HasList(s) == not_applicable(s) \/ ListEnd(s) > 0

IndexedInOrder(records) ==
    \A i \in 1..Len(records) : records[i].factor_index = <<"Factor", SP>> \o str_int(i)

\* C5 as stated: on an element body whose factor list has N numbered lines,
\* element_to_factors returns exactly N records, indexed "Factor 1" to "Factor N" in order.
C5_AsStated ==
    (FactorsCalled /\ HasList(arg)) =>
        /\ res.st = "ok"
        /\ Len(res.val) = NumberedLines(arg)
        /\ IndexedInOrder(res.val)

\* C5 amended: on such a body element_to_factors either raises or returns exactly
\* N records, indexed "Factor 1" to "Factor N" in order; when it does not raise and
\* N > 0, every factor 1..N has a title and a description in the list or in the
\* explanation.
C5_RaiseOrNRecords ==
    (FactorsCalled /\ HasList(arg)) =>
        \/ res.st = "raise"
        \/ /\ res.st = "ok"
           /\ Len(res.val) = NumberedLines(arg)
           /\ IndexedInOrder(res.val)
           /\ \A i \in 1..Len(res.val) :
                 res.val[i].factor_title # <<>> /\ res.val[i].factor_description # <<>>

\* C5 witness: a list of two numbered lines gave the two records Factor 1, Factor 2
C5_Witness ==
    /\ FactorsCalled
    /\ ~not_applicable(arg)
    /\ NumberedLines(arg) = 2
    /\ res.st = "ok"
    /\ Len(res.val) = 2
    /\ res.val[2].factor_index = <<"Factor", SP, "2">>

\* C5: a list of two numbered lines on which element_to_factors raises
C5_WitnessRaise ==
    /\ FactorsCalled
    /\ ~not_applicable(arg)
    /\ NumberedLines(arg) = 2
    /\ res.st = "raise"

(***************************************************************************)
(* The batch: parse_pdfs_in_dir on a directory of documents.  A document   *)
(* is the list of its page texts, as read_pdf_pages returns it.            *)
(***************************************************************************)
MaxFiles == 2

\* the names a PDF file of the directory may have, in sorted order
FileNames == <<"a.pdf", "b.pdf", "c.pdf", "d.pdf">>
Rank(name) == CHOOSE i \in 1..Len(FileNames) : FileNames[i] = name

\* an element with two factors, the first one marked with an asterisk
ElementTwo ==
    << <<"Element", " ", "A", ":", " ", "T">>,                     \* Element A: T
       <<"The organization", " ", "meets", ":">>,                  \* The organization meets:
       <<"1", ".", " ", "Foo", "*">>,                              \* 1. Foo*
       <<"2", ".", " ", "Bar">>,                                   \* 2. Bar
       <<"*", "Critical", " ", "factors", " ", "x">>,              \* *Critical factors x
       <<"Scoring">>,                                              \* Scoring
       <<"Met">>,                                                  \* Met
       <<"Not Met">>,                                              \* Not Met
       <<"Data", " ", "source">>,                                  \* Data source
       <<"x", ",", " ", "y">>,                                     \* x, y
       <<"Explanation">>,                                          \* Explanation
       <<"MUST-PASS", " ", "x">>,                                  \* MUST-PASS x
       <<"Factor", " ", "1", ":", " ", "Foo">>,                    \* Factor 1: Foo
       <<"AAA">>,                                                  \* AAA
       <<"Factors", " ", "2">>,                                    \* Factors 2
       <<"BBB">>,                                                  \* BBB
       <<"Examples">>,                                             \* Examples
       <<"x">> >>                                                  \* x

\* an element without numbered factors
ElementZero ==
    << <<"Element", " ", "B", ":", " ", "T">>,                     \* Element B: T
       <<"The organization", " ", "meets", " ", "x">>,             \* The organization meets x
       <<"x", " ", "y">>,                                          \* x y
       <<"Scoring">>,                                              \* Scoring
       <<"Met">>,                                                  \* Met
       <<"Data", " ", "source">>,                                  \* Data source
       <<"x">>,                                                    \* x
       <<"Explanation">>,                                          \* Explanation
       <<"AAA">>,                                                  \* AAA
       <<"Examples">>,                                             \* Examples
       <<"x">> >>                                                  \* x

\* an element that does not apply
ElementNA ==
    << <<"Element", " ", "C", ":", " ", "T">>,                     \* Element C: T
       <<"Not Applicable">>,                                       \* Not Applicable
       <<"x">> >>                                                  \* x

\* an element whose explanation has a block for factor 1 only
ElementBad ==
    << <<"Element", " ", "B", ":", " ", "T">>,                     \* Element B: T
       <<"Foo", ":">>,                                             \* Foo:
       <<"1", ".", " ", "Foo">>,                                   \* 1. Foo
       <<"2", ".", " ", "Bar">>,                                   \* 2. Bar
       <<"Scoring">>,                                              \* Scoring
       <<"Met">>,                                                  \* Met
       <<"Data", " ", "source">>,                                  \* Data source
       <<"x">>,                                                    \* x
       <<"Explanation">>,                                          \* Explanation
       <<"Factor", " ", "1", ":", " ", "Foo">>,                    \* Factor 1: Foo
       <<"AAA">>,                                                  \* AAA
       <<"Examples">>,                                             \* Examples
       <<"x">> >>                                                  \* x


\* the first four lines of a page of a standard: its running header and boilerplate
HeaderLines(header) == <<header, <<"NCQA">>, <<"x">>, <<"y">> >>
\* the page where a standard begins: its title comes on the fifth line
FirstPage(header, lines) == join(<<NL>>, HeaderLines(header) \o <<header>> \o lines)
\* a page where a standard goes on
NextPage(header, lines) == join(<<NL>>, HeaderLines(header) \o lines)

Header1 == <<"A", "B", SP, "1", ":", SP, "Foo">>        \* AB 1: Foo
Header2 == <<"A", "B", SP, "2", ":", SP, "Bar">>        \* AB 2: Bar
Header3 == <<"A", "B", SP, "3", ":", SP, "Foo">>        \* AB 3: Foo

CoverPage == join(<<NL>>, << <<"NCQA">>, <<"Foo", SP, "Bar">> >>)
DatePage == <<"Effective for Surveys On or After", SP, "July", SP, "1", ",", SP,
              "2", "0", "2", "5">>

\* two standards, the first on two pages
DocGood ==
    << CoverPage, DatePage,
       FirstPage(Header1, ElementTwo), NextPage(Header1, ElementZero),
       FirstPage(Header2, ElementNA) >>
\* the second element of the second standard raises
DocBadElement ==
    << CoverPage, DatePage,
       FirstPage(Header1, ElementZero),
       FirstPage(Header2, ElementTwo \o ElementBad),
       FirstPage(Header3, ElementZero) >>
\* the second standard has no element header
DocNoElement ==
    << CoverPage, DatePage,
       FirstPage(Header1, ElementZero),
       FirstPage(Header2, << <<"x", SP, "y">> >>),
       FirstPage(Header3, ElementZero) >>
\* no effective date on the second page
DocNoDate == << CoverPage, <<"Foo">>, FirstPage(Header1, ElementZero) >>
\* one standard of one element
DocSmall == << CoverPage, DatePage, FirstPage(Header1, ElementNA) >>

Docs == {DocGood, DocBadElement, DocNoElement, DocNoDate, DocSmall}

\* the directories: some of the first MaxFiles names, each holding a document
Directories ==
    UNION {[names -> Docs] :
              names \in SUBSET {FileNames[i] : i \in 1..Min({MaxFiles, Len(FileNames)})}}

\* the files of the directory in descending order of their names
sorted_files_descending(names) ==
    [k \in 1..Cardinality(names) |->
        CHOOSE n \in names : Cardinality({m \in names : Rank(m) > Rank(n)}) = k - 1]

\* sorted([p for p in dir_path.glob("*.pdf")])
sorted_files(names) ==
    [k \in 1..Cardinality(names) |->
        CHOOSE n \in names : Cardinality({m \in names : Rank(m) < Rank(n)}) = k - 1]

InitBatch ==
    /\ fn = "parse_pdfs_in_dir"
    /\ arg \in Directories
    /\ res = Pending
    /\ pdf_files = <<>> /\ pos = 0 /\ pc = "start" /\ local = NoLocal
    /\ csv = [exists |-> FALSE, lines |-> <<>>]
    /\ calls = <<>> /\ errors = <<>> /\ written = <<>>

\* parse_pdfs_in_dir up to the loop: the sorted list, and the return when it is empty
Start ==
    /\ pc = "start"
    /\ pdf_files' = sorted_files(DOMAIN arg)
    /\ IF DOMAIN arg = {}
       THEN pc' = "done" /\ res' = Ok(<<>>) /\ pos' = 0
       ELSE pc' = "loop" /\ res' = res /\ pos' = 1
    /\ UNCHANGED <<fn, arg, local, csv, calls, errors, written>>

\* an except clause that ends the loop (break) where the code goes on (continue)
Caught_breaking(s, e) ==
    /\ errors' = Append(errors, [pdf |-> pdf_files[pos], s |-> s, e |-> e])
    /\ pos' = Len(pdf_files) + 1
    /\ pc' = "loop"
    /\ local' = NoLocal

\* except Exception: the error is logged and the loop goes on with the next file
Caught(s, e) ==
    /\ errors' = Append(errors, [pdf |-> pdf_files[pos], s |-> s, e |-> e])
    /\ pos' = pos + 1
    /\ pc' = "loop"
    /\ local' = NoLocal

\* parse_pdf_incremental returns: the loop goes on with the next file
Returned ==
    /\ errors' = errors
    /\ pos' = pos + 1
    /\ pc' = "loop"
    /\ local' = NoLocal

\* the call of parse_pdf_incremental on the next file, up to its loop over the standards
OpenDocument ==
    /\ pc = "loop"
    /\ pos <= Len(pdf_files)
    /\ calls' = Append(calls, pdf_files[pos])
    /\ LET opened(functional_area, effective_date, year, standards) ==
             IF functional_area.st = "raise" \/ effective_date.st = "raise" \/ year.st = "raise"
             THEN Caught(0, 0)
             ELSE IF standards = <<>> THEN Returned
             ELSE /\ local' = [NoLocal EXCEPT !.functional_area = functional_area.val,
                                              !.effective_date = effective_date.val,
                                              !.year = year.val,
                                              !.standards = standards,
                                              !.write_header = ~csv.exists,
                                              !.s = 1]
                  /\ pc' = "standard"
                  /\ UNCHANGED <<pos, errors>>
           dated(pages, effective_date) ==
             opened(get_functional_area(pages), effective_date,
                    get_year_from_date(effective_date.val),
                    separate_pages_by_standard_v2(pages))
           read(pages) == dated(pages, get_date(pages))
       IN read(arg[pdf_files[pos]])
    /\ UNCHANGED <<fn, arg, res, pdf_files, csv, written>>

\* the head of the loop over the standards: the index, the title and the elements
BeginStandard ==
    /\ pc = "standard"
    /\ LET begun(std_header, std_title, elements_dict) ==
             IF std_title.st = "raise" \/ elements_dict.st = "raise"
             THEN Caught(local.s, 0)
             ELSE /\ local' = [local EXCEPT !.std_index = standard_get_index(std_header),
                                            !.std_title = std_title.val,
                                            !.elements_dict = elements_dict.val,
                                            !.e = 1,
                                            !.rows = <<>>]
                  /\ pc' = "element"
                  /\ UNCHANGED <<pos, errors>>
       IN begun(local.standards[local.s][1],
                standard_get_title(local.standards[local.s][1]),
                standard_to_elements(local.standards[local.s][2]))
    /\ UNCHANGED <<fn, arg, res, pdf_files, csv, calls, written>>

\* a loop over the elements that skips an element whose extraction raises
ProcessElement_skipping_failures ==
    /\ pc = "element"
    /\ local.e <= Len(local.elements_dict)
    /\ \E reply \in GptReplies :
          LET rows_after(new_rows) ==
                IF new_rows.st = "raise"
                THEN /\ errors' = Append(errors, [pdf |-> pdf_files[pos], s |-> local.s,
                                                  e |-> local.e])
                     /\ local' = [local EXCEPT !.e = local.e + 1]
                     /\ UNCHANGED <<pos, pc>>
                ELSE /\ local' = [local EXCEPT !.rows = local.rows \o new_rows.val,
                                               !.e = local.e + 1]
                     /\ UNCHANGED <<pos, pc, errors>>
          IN rows_after(element_rows(local, local.elements_dict[local.e][1],
                                     local.elements_dict[local.e][2], reply))
    /\ UNCHANGED <<fn, arg, res, pdf_files, csv, calls, written>>

\* one turn of the loop over the elements: every field is extracted, then the rows
\* of the element are appended to rows
ProcessElement ==
    /\ pc = "element"
    /\ local.e <= Len(local.elements_dict)
    /\ \E reply \in GptReplies :
          LET rows_after(new_rows) ==
                IF new_rows.st = "raise"
                THEN Caught(local.s, local.e)
                ELSE /\ local' = [local EXCEPT !.rows = local.rows \o new_rows.val,
                                               !.e = local.e + 1]
                     /\ UNCHANGED <<pos, pc, errors>>
          IN rows_after(element_rows(local, local.elements_dict[local.e][1],
                                     local.elements_dict[local.e][2], reply))
    /\ UNCHANGED <<fn, arg, res, pdf_files, csv, calls, written>>

\* df.to_csv(output_csv, mode="a", header=True): the header is written at every call
to_csv_with_header(rows, header) ==
    <<[header |-> TRUE, cells |-> COLUMNS]>>
    \o [i \in 1..Len(rows) |-> [header |-> FALSE, cells |-> rows[i]]]

\* df.to_csv(output_csv, mode="a", header=write_header): the lines appended
to_csv(rows, header) ==
    (IF header THEN <<[header |-> TRUE, cells |-> COLUMNS]>> ELSE <<>>)
    \o [i \in 1..Len(rows) |-> [header |-> FALSE, cells |-> rows[i]]]

\* the end of a turn of the loop over the standards: the rows are appended to the file
WriteStandard ==
    /\ pc = "element"
    /\ local.e > Len(local.elements_dict)
    /\ csv' = [exists |-> TRUE, lines |-> csv.lines \o to_csv(local.rows, local.write_header)]
    /\ written' = Append(written, [pdf |-> pdf_files[pos], s |-> local.s,
                                   std_index |-> local.std_index,
                                   body |-> local.standards[local.s][2],
                                   rows |-> Len(local.rows)])
    /\ IF local.s = Len(local.standards)
       THEN Returned
       ELSE /\ local' = [local EXCEPT !.write_header = FALSE, !.s = local.s + 1]
            /\ pc' = "standard"
            /\ UNCHANGED <<pos, errors>>
    /\ UNCHANGED <<fn, arg, res, pdf_files, calls>>

\* the loop over the files is over: parse_pdfs_in_dir returns
Finish ==
    /\ pc = "loop"
    /\ pos > Len(pdf_files)
    /\ pc' = "done"
    /\ res' = Ok(<<>>)
    /\ UNCHANGED <<fn, arg, pdf_files, pos, local, csv, calls, errors, written>>

Init == InitBatch

Next == Start \/ OpenDocument \/ BeginStandard \/ ProcessElement \/ WriteStandard \/ Finish

Spec == Init /\ [][Next]_vars

(***************************************************************************)
(* What C1 and C2 say of a run of the batch, stated on its histories: the  *)
(* files on which parse_pdf_incremental was called (calls), the errors     *)
(* caught with the standard and the element at which each was raised       *)
(* (errors), and the standards appended to the output (written).           *)
(***************************************************************************)
\* the names of a list come in strictly ascending order
Ascending(files) == \A i \in 1..Len(files) : \A j \in 1..Len(files) :
                        i < j => Rank(files[i]) < Rank(files[j])

\* the files called so far are the first ones of the sorted list, each once
CalledInOrder ==
    /\ Len(calls) <= Len(pdf_files)
    /\ calls = SubSeq(pdf_files, 1, Len(calls))
    /\ Ascending(pdf_files)
    /\ pc # "start" => {pdf_files[i] : i \in 1..Len(pdf_files)} = DOMAIN arg

\* parse_pdfs_in_dir has returned normally after a call on every file
ReturnedAfterAll == pc = "done" /\ res = Ok(<<>>) /\ calls = pdf_files

\* where the run is: the file, the standard, the step within the standard, the element
Place == <<pos, local.s,
           CASE pc = "standard" -> 1 [] pc = "element" -> 2 [] pc = "done" -> 3 [] OTHER -> 0,
           local.e>>
\* place a comes before place b
Before(a, b) == \E i \in 1..Len(a) : a[i] < b[i] /\ \A j \in 1..(i - 1) : a[j] = b[j]

\* the run stands at the head of a step that can be taken: a file to open or the end
\* of the list, a standard of the open document, an element of it or the end of them
AtStep ==
    \/ pc = "start"
    \/ pc = "loop" /\ pos \in 1..(Len(pdf_files) + 1)
    \/ /\ pc \in {"standard", "element"}
       /\ pos \in 1..Len(pdf_files)
       /\ local.s \in 1..Len(local.standards)
       /\ pc = "element" => local.e \in 1..(Len(local.elements_dict) + 1)

\* C1: whatever parses raise, parse_pdf_incremental is called on every PDF file
\* of the directory once, in sorted order, and parse_pdfs_in_dir returns normally:
\* no error leaves it, a run that has not returned stands at a step it can take,
\* every step takes the run to a later place, and it has returned only after a
\* call on every file.
C1_EveryFileOnce ==
    /\ [](/\ CalledInOrder
          /\ res # Raise
          /\ pc = "done" \/ AtStep
          /\ pc = "done" => ReturnedAfterAll)
    /\ [][Before(Place, Place')]_vars

\* C1 witness: the batch has returned, the first of two files having raised
C1_Witness ==
    /\ ReturnedAfterAll
    /\ Len(pdf_files) = 2
    /\ \E k \in 1..Len(errors) : errors[k].pdf = pdf_files[1]

\* the data rows of the output
RECURSIVE rows_of(_)
rows_of(entries) == IF entries = <<>> THEN 0 ELSE Head(entries).rows + rows_of(Tail(entries))
DataLines == {i \in 1..Len(csv.lines) : ~csv.lines[i].header}

\* C2: once an extraction step has raised at an element, the document is no more
\* processed and nothing of the failing standard or of a later standard of the
\* document is in the output, which holds the rows of the written standards only.
C2_StopsAtFailure ==
    /\ \A k \in 1..Len(errors) :
          errors[k].e > 0 =>
             /\ \A j \in 1..Len(written) :
                   written[j].pdf = errors[k].pdf => written[j].s < errors[k].s
             /\ pc \in {"standard", "element"} => pdf_files[pos] # errors[k].pdf
    /\ Cardinality(DataLines) = rows_of(written)

\* C2 witness: the second element of the second standard of a document has raised
\* after the first standard was written, and the batch has run to its end
C2_Witness ==
    /\ pc = "done"
    /\ \E k \in 1..Len(errors) :
          /\ errors[k].s = 2 /\ errors[k].e = 2
          /\ \E j \in 1..Len(written) :
                written[j].pdf = errors[k].pdf /\ written[j].s = 1 /\ written[j].rows > 0

(***************************************************************************)
(* What C3 and C4 say of a standard body, stated on its lines: an element  *)
(* header begins a line with "Element", whitespace, one or two capital     *)
(* letters, a colon and whitespace.                                        *)
(***************************************************************************)
HeaderAt(s, p) ==
    /\ p \in LineStarts(s)
    /\ p <= Len(s)
    /\ s[p] = "Element"
    /\ \E q \in (p + 2)..(Len(s) - 2) :
          /\ \A r \in (p + 1)..(q - 1) : s[r] \in Whitespace
          /\ s[q] \in Upper1
          /\ \/ s[q + 1] = ":" /\ s[q + 2] \in Whitespace
             \/ q + 3 <= Len(s) /\ s[q + 1] \in Upper1 /\ s[q + 2] = ":"
                /\ s[q + 3] \in Whitespace

HeaderStarts(s) == {p \in 1..Len(s) : HeaderAt(s, p)}

\* the elements of a set of numbers in ascending order
Ordered(S) == [k \in 1..Cardinality(S) |->
                  CHOOSE x \in S : Cardinality({y \in S : y < x}) = k - 1]

ElementsCalled == fn = "standard_to_elements" /\ res # Pending

\* the standards of the document of a file, as parse_pdf_incremental groups them
StandardsOf(pdf) == separate_pages_by_standard_v2(arg[pdf])

\* the application of standard_to_elements to a body, and the batch
SpecStandards == (InitElements \/ InitBatch) /\ [][CallElements \/ Next]_vars

\* C3: on a standard body without element header standard_to_elements raises, and
\* it never returns an empty mapping; in the batch no standard whose body has no
\* element header is appended to the output.
C3_ZeroHeadersRaise ==
    /\ ElementsCalled =>
          /\ HeaderStarts(arg) = {} => res = Raise
          /\ res.st = "ok" => res.val # <<>>
    /\ \A j \in 1..Len(written) : HeaderStarts(written[j].body) # {}

\* C3 witness: the batch has returned; the second standard of a document had a body
\* without element header, the error was caught there and the standard not written
C3_Witness ==
    /\ fn = "parse_pdfs_in_dir"
    /\ pc = "done"
    /\ \E k \in 1..Len(errors) :
          /\ errors[k].s = 2 /\ errors[k].e = 0
          /\ HeaderStarts(StandardsOf(errors[k].pdf)[2][2]) = {}
          /\ \A j \in 1..Len(written) :
                written[j].pdf = errors[k].pdf => written[j].s = 1

\* the i-th entry of the mapping holds the text of a span that begins in the i-th
\* header line or after it and ends where the next header line begins
EntryInSpan(s, starts, entries, i) ==
    \E b \in starts[i]..(Len(s) + 1) :
        entries[i][2] = strip(Slice(s, b, IF i < Len(starts) THEN starts[i + 1] ELSE Len(s) + 1))

\* C4 as stated: a standard body with k >= 1 element header lines gives exactly k
\* entries, each with the text of its own span from its header to the next header
\* or the end of the text.
C4_AsStated ==
    (ElementsCalled /\ HeaderStarts(arg) # {}) =>
        /\ res.st = "ok"
        /\ Len(res.val) = Cardinality(HeaderStarts(arg))
        /\ \A i \in 1..Len(res.val) : EntryInSpan(arg, Ordered(HeaderStarts(arg)), res.val, i)

(***************************************************************************)
(* separate_pages_by_standard and separate_pages_by_standard_v2 on lists   *)
(* of pages                                                                *)
(***************************************************************************)
MaxPages == 3

\* a line that is no standard header
PlainLine == <<"x", SP, "y">>

PageSet ==
    { FirstPage(Header1, << <<"AAA">> >>),                   \* standard 1 begins
      NextPage(Header1, << <<"BBB">> >>),                    \* standard 1 goes on
      join(<<NL>>, <<Header2, <<>>, <<"NCQA">>, <<"x">>, <<"y">>, Header2,
                     <<SP, "Foo">> >>),                      \* standard 2 begins, with a blank line
      join(<<NL>>, <<PlainLine, <<"NCQA">>, <<"x">>, <<"y">>, <<"Bar">> >>),  \* no header at all
      <<SP, NL>>,                                            \* a page without text
      join(<<NL>>, <<Header1, <<"x">> >>) }                  \* a page of two lines

InitPages ==
    /\ fn \in {"separate_pages_by_standard", "separate_pages_by_standard_v2"}
    /\ arg \in SeqsUpTo(PageSet, MaxPages)
    /\ res = Pending
    /\ Idle

CallStrict ==
    /\ fn = "separate_pages_by_standard"
    /\ res = Pending
    /\ res' = separate_pages_by_standard(arg)
    /\ UNCHANGED <<fn, arg>>
    /\ UNCHANGED wvars

CallTolerant ==
    /\ fn = "separate_pages_by_standard_v2"
    /\ res = Pending
    /\ res' = Ok(separate_pages_by_standard_v2(arg))
    /\ UNCHANGED <<fn, arg>>
    /\ UNCHANGED wvars

SpecPages == InitPages /\ [][CallStrict \/ CallTolerant]_vars

(***************************************************************************)
(* What C11, C12 and C13 say of a list of pages, stated on the non-blank   *)
(* lines of each page.                                                     *)
(***************************************************************************)
\* the non-blank lines of a page, each without the whitespace around it
PageLines(page) ==
    LET kept == SelectSeq(split_on(page, NL), LAMBDA l : strip(l) # <<>>)
    IN [i \in 1..Len(kept) |-> strip(kept[i])]

\* the line matches the header pattern from its beginning
IsStandardHeader(line) == MatchAt(standard_pattern, 0, line, 1).ok

\* the body of a page: its lines from index 4 on, joined by line breaks and trimmed
BodyOf(page) == strip(join(<<NL>>, SubSeq(PageLines(page), 5, Len(PageLines(page)))))

\* the page has a first line and it is a standard header
WellFormed(page) == PageLines(page) # <<>> /\ IsStandardHeader(PageLines(page)[1])

\* the values of f at the numbers of S, in ascending order
RECURSIVE Pick(_, _)
Pick(f, S) == IF S = {} THEN <<>> ELSE <<f[Min(S)]>> \o Pick(f, S \ {Min(S)})

\* the pages of the list whose first line is header
PagesOf(pages, header) == {i \in 1..Len(pages) : PageLines(pages[i])[1] = header}

\* the pages that bring a first line not seen on an earlier page
FirstSeen(pages) ==
    {i \in 1..Len(pages) :
        \A j \in 1..(i - 1) : PageLines(pages[j])[1] # PageLines(pages[i])[1]}

\* the mapping C11 describes
StrictGrouping(pages) ==
    Pick([i \in 1..Len(pages) |->
             <<PageLines(pages[i])[1],
               strip(join(<<NL>>, Pick([j \in 1..Len(pages) |-> BodyOf(pages[j])],
                                       PagesOf(pages, PageLines(pages[i])[1]))))>>],
         FirstSeen(pages))

StrictCalled == fn = "separate_pages_by_standard" /\ res # Pending

\* C11: when the first non-blank line of every page is a standard header,
\* separate_pages_by_standard returns, in the order the headers are first met, each
\* header with the trimmed newline-joined bodies of its pages in page order; when
\* a page is empty or its first line is no header, it raises.
C11_StrictGrouping ==
    StrictCalled =>
        IF \A i \in 1..Len(arg) : WellFormed(arg[i])
        THEN res = Ok(StrictGrouping(arg))
        ELSE res = Raise

\* C11 witness: two pages of one standard around a page of another one
C11_Witness ==
    /\ StrictCalled
    /\ Len(arg) = 3
    /\ res.st = "ok"
    /\ Len(res.val) = 2
    /\ PagesOf(arg, res.val[1][1]) = {1, 3}
    /\ BodyOf(arg[1]) # <<>> /\ BodyOf(arg[3]) # <<>> /\ BodyOf(arg[1]) # BodyOf(arg[3])

TolerantCalled == fn = "separate_pages_by_standard_v2" /\ res # Pending

\* the page has a line of index 4
HasFive(page) == Len(PageLines(page)) >= 5
\* a standard begins on the page: its line of index 4 matches the header pattern
Begins(page) == HasFive(page) /\ IsStandardHeader(PageLines(page)[5])
\* the last page up to page i on which a standard begins, 0 when there is none
Opener(pages, i) == Max({j \in 1..i : Begins(pages[j])} \cup {0})
\* the header of the standard page i belongs to, <<>> for a page that is skipped
Owner(pages, i) ==
    IF ~HasFive(pages[i]) \/ Opener(pages, i) = 0 THEN <<>>
    ELSE PageLines(pages[Opener(pages, i)])[1]

\* the trimmed newline-joined bodies, in page order, of the pages that belong to header
Merged(pages, header) ==
    strip(join(<<NL>>, Pick([j \in 1..Len(pages) |-> BodyOf(pages[j])],
                            {i \in 1..Len(pages) : Owner(pages, i) = header})))

\* the pages with a line of index 4 that come before the first page on which a
\* standard begins
SkippedPages(pages) == {i \in 1..Len(pages) : HasFive(pages[i]) /\ Opener(pages, i) = 0}

\* C12 as stated: separate_pages_by_standard_v2 stores under every standard header
\* the trimmed newline-joined bodies, in page order, of all the pages that belong to
\* the standard, also when the header recurs on a later page: no body is lost.
\* (Stated for the lists in which no page comes before the first standard.)
C12_AsStated ==
    TolerantCalled /\ SkippedPages(arg) = {} =>
        /\ res.st = "ok"
        /\ {res.val[k][1] : k \in 1..Len(res.val)}
              = {Owner(arg, i) : i \in 1..Len(arg)} \ {<<>>}
        /\ \A k \in 1..Len(res.val) : res.val[k][2] = Merged(arg, res.val[k][1])

\* the lines of a text
LinesOf(text) == {split_on(text, NL)[k] : k \in 1..Len(split_on(text, NL))}

\* C13 as stated: a page with at least 5 non-blank lines that comes while no
\* standard is open and whose line of index 4 is no header is skipped: the mapping
\* is the one of the list without these pages, and when no other page has the text
\* of such a page, no line of its body is a line of a body of the mapping.
C13_AsStated ==
    TolerantCalled =>
        /\ res = Ok(separate_pages_by_standard_v2(
                       Pick(arg, (1..Len(arg)) \ SkippedPages(arg))))
        /\ \A i \in SkippedPages(arg) :
              (\A j \in (1..Len(arg)) \ SkippedPages(arg) : arg[j] # arg[i])
                 => \A k \in 1..Len(res.val) :
                       LinesOf(BodyOf(arg[i])) \cap LinesOf(res.val[k][2]) = {}

(***************************************************************************)
(* element.get_scoring_text on the texts of up to MaxTextLines lines        *)
(***************************************************************************)
MaxTextLines == 4

ScoringTextLines ==
    { <<"Scoring">>,                    \* Scoring
      <<"x">>,                          \* x
      <<"Data", SP, "source">>,         \* Data source
      <<"Examples">>,                   \* Examples
      <<"Scoring", SP, "y">>,           \* Scoring y
      <<>> }                            \* an empty line

InitScoringText ==
    /\ fn = "get_scoring_text"
    /\ arg \in Texts(ScoringTextLines, MaxTextLines)
    /\ res = Pending
    /\ Idle

CallScoringText ==
    /\ fn = "get_scoring_text"
    /\ res = Pending
    /\ res' = get_scoring_text(arg)
    /\ UNCHANGED <<fn, arg>>
    /\ UNCHANGED wvars

SpecScoringText == InitScoringText /\ [][CallScoringText]_vars

ScoringTextCalled == fn = "get_scoring_text" /\ res # Pending

TextLines == split_on(arg, NL)

\* the section-header keywords that end the scoring text
SectionKeywords == {"Data", "Scope of", "Documentation", "Look-back", "Explanation",
                    "Exceptions", "Related information", "Examples"}

\* the line starts with a section-header keyword
IsKeywordLine(line) ==
    \/ line # <<>> /\ line[1] \in SectionKeywords
    \/ MatchAt(<<"seq", << Lit("Factor"), Plus(WS), Plus(Digit), Lit(":") >> >>, 0, line, 1).ok

\* the lines "Scoring", and the lines that begin with the word
ScoringLineAt == {i \in 1..Len(TextLines) : TextLines[i] = <<"Scoring">>}
BeginsScoring == {i \in 1..Len(TextLines) : TextLines[i] # <<>> /\ TextLines[i][1] = "Scoring"}

\* the first keyword line after line a, the line after the last one when there is none
SectionEnd(a) ==
    Min({j \in (a + 1)..Len(TextLines) : IsKeywordLine(TextLines[j])} \cup {Len(TextLines) + 1})

\* the text between line a and the end of its section
SectionText(a) == strip(join(<<NL>>, SubSeq(TextLines, a + 1, SectionEnd(a) - 1)))

\* C14 as stated: on a body with a line "Scoring", get_scoring_text returns the text
\* between that line and the first following line that starts with a section-header
\* keyword, or up to the end of the text when no such line follows, and does not
\* raise. (Stated for the bodies whose first line beginning with "Scoring" is a line
\* "Scoring".)
C14_AsStated ==
    ScoringTextCalled /\ ScoringLineAt # {} /\ Min(BeginsScoring) \in ScoringLineAt =>
        res = Ok(SectionText(Min(ScoringLineAt)))

(***************************************************************************)
(* The rows of one element (C15)                                           *)
(***************************************************************************)
\* a turn of the loop over the elements went through without error
ElementDone == pc = "element" /\ pc' = "element" /\ local'.e = local.e + 1

\* the rows the turn appended
NewRows == SubSeq(local'.rows, Len(local.rows) + 1, Len(local'.rows))

\* the five factor fields of a row
FactorFields(row) ==
    [factor_index |-> row.factor_index,
     factor_title |-> row.factor_title,
     factor_description |-> row.factor_description,
     factor_explanation |-> row.factor_explanation,
     factor_critical |-> row.factor_critical]

\* the rows of an element are the rows before them and one row per factor, in the
\* order of the factors, or one row with blank factor fields and description
RowsOf(factors, description) ==
    /\ local'.rows = local.rows \o NewRows
    /\ IF Len(factors) >= 1
       THEN /\ Len(NewRows) = Len(factors)
            /\ \A i \in 1..Len(factors) : FactorFields(NewRows[i]) = factors[i]
       ELSE /\ Len(NewRows) = 1
            /\ NewRows[1].factor_index = <<>>
            /\ NewRows[1].factor_title = <<>>
            /\ NewRows[1].factor_explanation = <<>>
            /\ NewRows[1].factor_critical = <<>>
            /\ NewRows[1].factor_description = description

\* C15 as stated: an element processed without error gets one row per factor, in
\* factor order, when element_to_factors returns N >= 1 factors, and one row when
\* N = 0, with factor_index, factor_title, factor_explanation and factor_critical
\* empty and factor_description the factors-block text.
C15_AsStated ==
    [][ElementDone =>
          RowsOf(element_to_factors(local.elements_dict[local.e][2]).val,
                 get_factors_text(local.elements_dict[local.e][2]).val)]_vars

\* C15: as above, the factor_description of the row of an element without factors
\* being the factors-block text with every newline replaced by a space.
C15_RowsPerElement ==
    [][ElementDone =>
          RowsOf(element_to_factors(local.elements_dict[local.e][2]).val,
                 replace(get_factors_text(local.elements_dict[local.e][2]).val, NL, <<SP>>))]_vars

\* C15 witness: the rows of a standard hold the two rows of an element of two factors
\* and the row of an element without factors whose factors block has two lines
C15_Witness ==
    /\ pc = "element"
    /\ \E i \in 1..Len(local.rows) :
          /\ local.rows[i].element_num_factors = 2
          /\ local.rows[i].factor_index = <<"Factor", SP, "2">>
    /\ \E i \in 1..Len(local.rows) :
          /\ local.rows[i].element_num_factors = 0
          /\ local.rows[i].factor_index = <<>>
          /\ SP \in {local.rows[i].factor_description[k] :
                        k \in 1..Len(local.rows[i].factor_description)}
          /\ NL \notin {local.rows[i].factor_description[k] :
                           k \in 1..Len(local.rows[i].factor_description)}

(***************************************************************************)
(* The order of the rows of the output (C16)                               *)
(***************************************************************************)
\* the data rows of the output, in the order of the file
DataRows ==
    LET data == SelectSeq(csv.lines, LAMBDA l : ~l.header)
    IN [i \in 1..Len(data) |-> data[i].cells]

\* the number of rows of the standards written before the j-th one
RowsBefore(j) == rows_of(SubSeq(written, 1, j - 1))

\* the rows of the j-th written standard
BlockOf(j) == SubSeq(DataRows, RowsBefore(j) + 1, RowsBefore(j + 1))

\* the place of the element of index elem_index among the element headers of a
\* standard, in the order of the headers
PlaceOf(elements_dict, elem_index) ==
    Min({e \in 1..Len(elements_dict) : element_get_index(elements_dict[e][1]) = elem_index}
        \cup {Len(elements_dict) + 1})

\* the number of a factor index "Factor n", 0 for the blank one
FactorNumber(factor_index) == IF factor_index = <<>> THEN 0 ELSE DigitVal(factor_index[3])

\* the rows follow the headers of the standard, the factors of an element ascending
InHeaderOrder(rows, elements_dict) ==
    /\ \A i \in 1..Len(rows) : PlaceOf(elements_dict, rows[i].element_index) <= Len(elements_dict)
    /\ \A i \in 1..(Len(rows) - 1) :
          \/ PlaceOf(elements_dict, rows[i].element_index)
                < PlaceOf(elements_dict, rows[i + 1].element_index)
          \/ /\ rows[i].element_index = rows[i + 1].element_index
             /\ FactorNumber(rows[i].factor_index) < FactorNumber(rows[i + 1].factor_index)

\* the written standards come file after file in sorted order and, within a file,
\* in the order of its standards; the data rows are their blocks one after another
InDocumentOrder ==
    /\ Len(DataRows) = rows_of(written)
    /\ \A j \in 1..Len(written) : \A k \in (j + 1)..Len(written) :
          \/ Rank(written[j].pdf) < Rank(written[k].pdf)
          \/ written[j].pdf = written[k].pdf /\ written[j].s < written[k].s
    /\ \A j \in 1..Len(written) :
          /\ \A i \in 1..Len(BlockOf(j)) : BlockOf(j)[i].standard_index = written[j].std_index
          /\ InHeaderOrder(BlockOf(j), standard_to_elements(written[j].body).val)

\* a step leaves the lines of the output where they are and adds lines after them
AppendOnly ==
    /\ Len(csv'.lines) >= Len(csv.lines)
    /\ SubSeq(csv'.lines, 1, Len(csv.lines)) = csv.lines

\* C16: the rows reach the output in document order: the rows of a file before the
\* rows of every file sorted after it, within a document the rows of a standard
\* before those of every later standard, within a standard the elements in header
\* order and the factors of an element in ascending order; every write appends, so
\* that the rows of two standards or two documents never interleave.
C16_DocumentOrder == []InDocumentOrder /\ [][AppendOnly]_vars

\* C16 witness: the batch has written two standards of a first file, the first of
\* them with the rows of two elements, and a standard of a second file
C16_Witness ==
    /\ pc = "done"
    /\ Len(written) >= 3
    /\ written[1].pdf = written[2].pdf
    /\ written[1].rows >= 3
    /\ written[Len(written)].pdf # written[1].pdf
    /\ Len(DataRows) = rows_of(written)

(***************************************************************************)
(* The header row of the output (C20)                                      *)
(***************************************************************************)
HeaderRows == {i \in 1..Len(csv.lines) : csv.lines[i].header}

\* C20: the output file not existing at first, after any calls of
\* parse_pdf_incremental, failed or not, the header row is in the output once when
\* a standard has been appended and not at all otherwise, and it is the first line.
C20_HeaderOnce ==
    /\ Cardinality(HeaderRows) = (IF written = <<>> THEN 0 ELSE 1)
    /\ \A i \in HeaderRows : i = 1 /\ csv.lines[i].cells = COLUMNS
    /\ csv.exists <=> written # <<>>
    /\ written = <<>> => csv.lines = <<>>

\* C20 witness: two files have appended standards, an error was caught, and the
\* batch has returned
C20_Witness ==
    /\ pc = "done"
    /\ errors # <<>>
    /\ \E j, k \in 1..Len(written) : written[j].pdf # written[k].pdf
    /\ HeaderRows = {1}
    /\ Len(csv.lines) >= 4

(***************************************************************************)
(* factor.get_title on explanations and factors blocks of up to            *)
(* MaxTitleLines lines                                                     *)
(***************************************************************************)
MaxTitleLines == 2
MaxTitleIndex == 2

TitleExplLines ==
    { <<"Factor", SP, "1", ":", SP, "Foo">>,     \* Factor 1: Foo
      <<"Factor", SP, "1", ":">>,                \* Factor 1:
      <<"Factor", SP, "2", ":", SP, "Bar">>,     \* Factor 2: Bar
      <<"AAA">> }                                \* AAA

TitleFactorLines ==
    { <<"1", ".", SP, "x", ".">>,                \* 1. x.
      <<"2", ".", SP, "y">>,                     \* 2. y
      <<"1", ".">>,                              \* 1.
      <<"BBB">> }                                \* BBB

InitTitle ==
    /\ fn = "get_title"
    /\ arg \in [element_explanation : Texts(TitleExplLines, MaxTitleLines),
                factors_text : Texts(TitleFactorLines, MaxTitleLines),
                index : 1..MaxTitleIndex]
    /\ res = Pending
    /\ Idle

CallTitle ==
    /\ fn = "get_title"
    /\ res = Pending
    /\ res' = factor_get_title(arg.element_explanation, arg.factors_text, arg.index)
    /\ UNCHANGED <<fn, arg>>
    /\ UNCHANGED wvars

SpecTitle == InitTitle /\ [][CallTitle]_vars

TitleCalled == fn = "get_title" /\ res # Pending

\* the text that follows "Factor i:" on a line of the explanation, <<>> when the line
\* is no such line or nothing follows
TrailingText(line, i) ==
    LET text_of(match) == IF ~match.ok THEN <<>> ELSE strip(Group(line, match, 1))
    IN text_of(MatchAt(title_from_explanation_pattern(i), 1, line, 1))

\* the text of a numbered line i of the factors block, one trailing period removed,
\* <<>> when the line is no such line
NumberedText(line, i) ==
    LET without_period(title) ==
          IF title # <<>> /\ title[Len(title)] = "."
          THEN strip(SubSeq(title, 1, Len(title) - 1)) ELSE title
        text_of(match) == IF ~match.ok THEN <<>> ELSE without_period(strip(Group(line, match, 1)))
    IN text_of(MatchAt(title_from_factors_pattern(i), 1, line, 1))

\* the first text of a sequence of texts that is not empty, <<>> when there is none
FirstText(texts) ==
    IF \A k \in 1..Len(texts) : texts[k] = <<>> THEN <<>>
    ELSE texts[Min({k \in 1..Len(texts) : texts[k] # <<>>})]

TitleFromExplanationLines ==
    FirstText([k \in 1..Len(split_on(arg.element_explanation, NL)) |->
                  TrailingText(split_on(arg.element_explanation, NL)[k], arg.index)])

TitleFromNumberedLines ==
    FirstText([k \in 1..Len(split_on(arg.factors_text, NL)) |->
                  NumberedText(split_on(arg.factors_text, NL)[k], arg.index)])

\* C17 as stated: when the explanation has a line "Factor i:" with text after the
\* colon, get_title returns that text; else, when the factors block has a numbered
\* line i, its text with one trailing period removed; else it raises.
C17_AsStated ==
    TitleCalled =>
        res = IF TitleFromExplanationLines # <<>> THEN Ok(TitleFromExplanationLines)
              ELSE IF TitleFromNumberedLines # <<>> THEN Ok(TitleFromNumberedLines)
              ELSE Raise

(***************************************************************************)
(* Element headers with a two-letter index (C18)                           *)
(***************************************************************************)
BodyLinesOf == split_on(arg, NL)

\* an element header line with a title, and one with a two-letter index
IsElementHeaderLine(line) == HeaderAt(line, 1)
IsTwoLetterLine(line) ==
    /\ IsElementHeaderLine(line)
    /\ line[3] \in Upper1 /\ line[4] \in Upper1 /\ line[5] = ":"

\* the header line with the first letter of its index dropped
WithoutFirstLetter(line) == SubSeq(line, 1, 2) \o SubSeq(line, 4, Len(line))

\* the first header line after line k, the line after the last one when there is none
NextHeaderLine(k) ==
    Min({j \in (k + 1)..Len(BodyLinesOf) : IsElementHeaderLine(BodyLinesOf[j])}
        \cup {Len(BodyLinesOf) + 1})

\* the text between line k and the next header line
TextAfter(k) == strip(join(<<NL>>, SubSeq(BodyLinesOf, k + 1, NextHeaderLine(k) - 1)))

\* line k is the only line of the body that gives its key, and every line of the
\* body that begins with "Element" is a header line with a title
AloneWithItsKey(k) ==
    /\ \A j \in 1..Len(BodyLinesOf) :
          /\ j # k => BodyLinesOf[j] # BodyLinesOf[k]
          /\ BodyLinesOf[j] # WithoutFirstLetter(BodyLinesOf[k])
          /\ (BodyLinesOf[j] # <<>> /\ BodyLinesOf[j][1] = "Element") => IsElementHeaderLine(BodyLinesOf[j])

\* C18 as stated: for a header line "Element XY: Title" standard_to_elements stores
\* the entry under "Element Y: Title", and the body of the entry is the text that
\* follows the header line up to the next header, with no character of the header
\* line. (Stated for the bodies in which no other header gives the same key.)
C18_AsStated ==
    ElementsCalled =>
        \A k \in 1..Len(BodyLinesOf) :
            IsTwoLetterLine(BodyLinesOf[k]) /\ AloneWithItsKey(k) =>
                /\ res.st = "ok"
                /\ HasKey(res.val, WithoutFirstLetter(BodyLinesOf[k]))
                /\ DictGet(res.val, WithoutFirstLetter(BodyLinesOf[k])) = TextAfter(k)

(***************************************************************************)
(* The critical flag of the records of element_to_factors (C19)            *)
(***************************************************************************)
\* the element text before its first line "Scoring"
BeforeScoring(s) ==
    Slice(s, 1, Min({p \in LineStarts(s) : p <= Len(s) /\ s[p] = "Scoring"} \cup {Len(s) + 1}))

\* C19 as stated: when the element text has a footnote line "*Critical factors"
\* before "Scoring", the record element_to_factors returns for a factor whose
\* numbered block ends with an asterisk has factor_critical true, and the record of
\* every factor whose block does not end with an asterisk has factor_critical false.
C19_AsStated ==
    (FactorsCalled /\ res.st = "ok" /\ HasFootnoteLine(BeforeScoring(arg))) =>
        \A i \in 1..Len(res.val) :
            res.val[i].factor_critical = EndsWithAsterisk(OwnBlock(BeforeScoring(arg), i))

(***************************************************************************)
(* The loop body of parse_pdf_incremental on one element: the rows of an   *)
(* element body of up to MaxRowLines chunks                                *)
(***************************************************************************)
MaxRowLines == 3

\* the sections of an element after its factor list
ElementSections ==
    join(<<NL>>, << <<"Scoring">>, <<"Met">>, <<"Data", SP, "source">>, <<"x">>,
                    <<"Explanation">>, <<"AAA">>, <<"Examples">>, <<"x">> >>)

RowChunks ==
    { <<"Not Applicable">>,                  \* Not Applicable
      ElementSections,                       \* Scoring ... Examples / x
      <<"Scoring">>,                         \* Scoring
      <<"Data", SP, "source">>,              \* Data source
      <<"Explanation">>,                     \* Explanation
      <<"1", ".", SP, "Foo">>,               \* 1. Foo
      <<"x">> }                              \* x

\* the local variables of parse_pdf_incremental at the element
RowsLocal ==
    [NoLocal EXCEPT !.functional_area = <<"Foo">>,
                    !.effective_date = <<"2", "0", "2", "5", "-", "0", "7", "-", "0", "1">>,
                    !.year = <<"2", "0", "2", "5">>,
                    !.std_index = <<"A", "B", SP, "1">>,
                    !.std_title = <<"Foo">>]

RowsHeader == <<"Element", SP, "C", ":", SP, "T">>

InitElementRows ==
    /\ fn = "element_rows"
    /\ arg \in Texts(RowChunks, MaxRowLines)
    /\ res = Pending
    /\ Idle

CallElementRows ==
    /\ fn = "element_rows"
    /\ res = Pending
    /\ \E reply \in GptReplies : res' = element_rows(RowsLocal, RowsHeader, arg, reply)
    /\ UNCHANGED <<fn, arg>>
    /\ UNCHANGED wvars

SpecElementRows == InitElementRows /\ [][CallElementRows]_vars

RowsCalled == fn = "element_rows" /\ res # Pending

\* the element body begins with "Not Applicable"
DoesNotApply == arg # <<>> /\ arg[1] = "Not Applicable"

\* C21: for an element whose body begins with "Not Applicable", whatever follows in
\* the body, no step of the loop body of parse_pdf_incremental raises (get_scoring,
\* get_data_source, get_explanation, get_factors_text, element_to_factors), the
\* element has no factor, and exactly one row is emitted for it, whose
\* element_scoring, element_data_source and factor_description are empty and whose
\* element_explanation is the element body as it is.
C21_NotApplicable ==
    (RowsCalled /\ DoesNotApply) =>
        /\ \A reply \in GptReplies : get_scoring(arg, reply).st = "ok"
        /\ get_data_source(arg).st = "ok"
        /\ element_get_explanation(arg).st = "ok"
        /\ get_factors_text(arg).st = "ok"
        /\ element_to_factors(arg) = Ok(<<>>)
        /\ res.st = "ok"
        /\ Len(res.val) = 1
        /\ res.val[1].element_num_factors = 0
        /\ res.val[1].element_scoring = <<>>
        /\ res.val[1].element_data_source = <<>>
        /\ res.val[1].factor_description = <<>>
        /\ res.val[1].element_explanation = arg

\* C21 witness: a body "Not Applicable" followed by a line "Scoring" and a numbered
\* line, without the other sections, gave one row
C21_Witness ==
    /\ RowsCalled
    /\ arg = join(<<NL>>, << <<"Not Applicable">>, <<"Scoring">>, <<"1", ".", SP, "Foo">> >>)
    /\ res.st = "ok"
    /\ Len(res.val) = 1
    /\ res.val[1].element_explanation = arg

====
